---------------------------- MODULE Spec2Model ----------------------------
(***************************************************************************)
(* Model of the product-mention extraction and review-matching pipeline    *)
(* of the Hairstory assistant (src/app.py).                                *)
(*                                                                         *)
(* Strings are sequences of one-character strings, so that str.lower(),    *)
(* the `in` operator, str.find(), str.split() and str.replace() are        *)
(* computed on the characters as Python computes them.                     *)
(***************************************************************************)
EXTENDS Integers, Sequences, FiniteSets, TLC

VARIABLES
    \* extract_product_images
    text,                   \* the text argument
    products,               \* the catalog argument: a sequence of product names
    text_lower,             \* text.lower()
    product_name_to_image,  \* insertion-ordered dict: sequence of [key, name]
    product_images,         \* the candidate pool, in discovery order
    found_products,         \* names already in the pool
    final_products,         \* the list returned
    seen_names,             \* names already in final_products
    pc,                     \* position inside extract_product_images
    DEBUG_MODE,             \* the module's logging flag
    calls,                  \* calls of extract_product_images begun so far
    previous,               \* the call before this one: its result and its flag
    \* fetch_positive_reviews_for_products
    product_titles,         \* the titles argument
    top_k_per_product,      \* the top_k_per_product argument
    idx,                    \* the loop's position in product_titles, from 1
    results,                \* results.matches of the current product: metadata records
    reviews_by_product,     \* insertion-ordered dict: sequence of [title, reviews]
    returned,               \* the mapping returned, once rpc = "returned"
    exception,              \* the error raised inside the try block, or "none"
    failed_at,              \* the position of the product whose lookup raised, or 0
    rpc,                    \* position inside fetch_positive_reviews_for_products
    \* is_quality_review and calculate_quality_score on their own
    q_content,              \* the content argument
    q_score,                \* the score argument
    q_accepted,             \* is_quality_review's result
    q_quality,              \* calculate_quality_score's result, in tenths
    qpc,
    generated,              \* /chat: openai_response.choices[0].message.content
    recommendation,         \* /chat: the recommendation text of the response
    chat_reviews,           \* /chat: its local reviews_by_product
    cpc,
    m_product,              \* the identity test: product_title
    m_title,                \* the identity test: metadata['product_title']
    m_matches,              \* the identity test: matches
    mpc,
    conversation_history,   \* /chat: data["conversation_history"]
    assistant_questions,    \* /chat: the count of lines 339-342
    branch,                 \* /chat: the branch of line 358 that was taken
    prompt,                 \* generate_conversational_response: the prompt built
    response_keys,          \* /chat: the keys of the JSON response
    route_pc

callVars == <<DEBUG_MODE, calls, previous>>

extractVars == <<text, products, text_lower, product_name_to_image,
                 product_images, found_products, final_products, seen_names, pc,
                 callVars>>

reviewVars == <<product_titles, top_k_per_product, idx, results,
                reviews_by_product, returned, exception, failed_at, rpc>>

qualityVars == <<q_content, q_score, q_accepted, q_quality, qpc>>

chatVars == <<generated, recommendation, chat_reviews, cpc>>

matchVars == <<m_product, m_title, m_matches, mpc>>

routeVars == <<conversation_history, assistant_questions, branch, prompt,
               response_keys, route_pc>>

vars == <<extractVars, reviewVars, qualityVars, chatVars, matchVars, routeVars>>

-----------------------------------------------------------------------------
(* Python string primitives on sequences of characters.                     *)

UpperChars ==
    <<"A","B","C","D","E","F","G","H","I","J","K","L","M",
      "N","O","P","Q","R","S","T","U","V","W","X","Y","Z">>

LowerChars ==
    <<"a","b","c","d","e","f","g","h","i","j","k","l","m",
      "n","o","p","q","r","s","t","u","v","w","x","y","z">>

\* str.lower() on one character
LowerChar(c) ==
    IF \E i \in 1..Len(UpperChars) : UpperChars[i] = c
    THEN LowerChars[CHOOSE i \in 1..Len(UpperChars) : UpperChars[i] = c]
    ELSE c

\* str.lower()
Lower(s) == [i \in 1..Len(s) |-> LowerChar(s[i])]

\* s[i:i+len(p)] == p, i counted from 0
MatchAt(p, s, i) ==
    /\ i + Len(p) <= Len(s)
    /\ SubSeq(s, i + 1, i + Len(p)) = p

\* s.find(p): the index (from 0) of the first occurrence of p in s, or -1
Find(p, s) ==
    IF p = <<>> THEN 0
    ELSE LET at == {i \in 0..(Len(s) - Len(p)) : s[i + 1] = p[1] /\ MatchAt(p, s, i)}
         IN  IF at = {} THEN -1 ELSE CHOOSE i \in at : \A j \in at : i <= j

\* p in s
Contains(p, s) == Find(p, s) # -1

\* abs()
Abs(n) == IF n < 0 THEN -n ELSE n

\* s.split(sep)[0]: the part of s before the first occurrence of sep
SplitFirst(s, sep) ==
    IF Contains(sep, s) THEN SubSeq(s, 1, Find(sep, s)) ELSE s

RECURSIVE FindAll(_, _)
\* [s.find(p) for p in ps]
FindAll(ps, s) ==
    IF ps = <<>> THEN <<>> ELSE <<Find(Head(ps), s)>> \o FindAll(Tail(ps), s)

-----------------------------------------------------------------------------
(* Product names of the catalog and the texts the extractor is run on.      *)

NewWashOriginal ==
    <<"N","e","w"," ","W","a","s","h"," ","O","r","i","g","i","n","a","l">>

NewWashRich ==
    <<"N","e","w"," ","W","a","s","h"," ","R","i","c","h">>

HairBalm ==
    <<"H","a","i","r"," ","B","a","l","m">>

BondBoost ==
    <<"B","o","n","d"," ","B","o","o","s","t">>

BondBoostForNewWash ==
    <<"B","o","n","d"," ","B","o","o","s","t"," ","f","o","r"," ","N","e","w"," ","W","a","s",
      "h">>

Oil ==
    <<"O","i","l">>

Primer ==
    <<"P","r","i","m","e","r">>

Wax ==
    <<"W","a","x">>

PreWash ==
    <<"P","r","e","-","W","a","s","h">>

FragRecommend ==
    <<"I"," ","r","e","c","o","m","m","e","n","d"," ","N","e","w"," ","W","a","s","h"," ","O",
      "r","i","g","i","n","a","l"," ","f","o","r"," ","y","o","u",".">>

FragReviews ==
    <<"\n","\n","W","h","a","t"," ","c","u","s","t","o","m","e","r","s"," ","a","r","e"," ","s",
      "a","y","i","n","g",":","\n","-"," ","\"","I"," ","a","l","s","o"," ","t","r","i","e","d",
      " ","H","a","i","r"," ","B","a","l","m","\"">>

FragTry ==
    <<" ","T","r","y"," ","H","a","i","r"," ","B","a","l","m"," ","a","n","d"," ","O","i","l",
      ".">>

FragBondBoost ==
    <<" ","B","o","n","d"," ","B","o","o","s","t">>

FragBondBoostForNewWash ==
    <<" ","B","o","n","d"," ","B","o","o","s","t"," ","f","o","r"," ","N","e","w"," ","W","a",
      "s","h">>

FragPrimerWax ==
    <<" ","P","r","i","m","e","r",","," ","W","a","x">>

FragBoil ==
    <<" ","b","o","i","l"," ","i","t">>

\* Hair Balm by a curated variation only
FragBalm ==
    <<" ","o","r"," ","a"," ","b","a","l","m">>

-----------------------------------------------------------------------------
(* Review contents and product titles of the review corpus.                 *)

ContentTransformed ==
    <<"T","h","i","s"," ","p","r","o","d","u","c","t"," ","c","o","m","p","l","e","t","e","l",
      "y"," ","t","r","a","n","s","f","o","r","m","e","d"," ","m","y"," ","c","u","r","l","y",
      ","," ","f","r","i","z","z","y"," ","h","a","i","r"," ","i","n","t","o"," ","s","o","f",
      "t"," ","d","e","f","i","n","e","d"," ","w","a","v","e","s"," ","a","f","t","e","r"," ",
      "j","u","s","t"," ","o","n","e"," ","w","a","s","h",".">>

ContentGreat ==
    <<"G","r","e","a","t","!">>

ContentSoftCurly ==
    <<"L","o","v","e"," ","h","o","w"," ","s","o","f","t"," ","m","y"," ","c","u","r","l","y",
      " ","h","a","i","r"," ","f","e","e","l","s">>

ContentClean ==
    <<"I","t"," ","m","a","k","e","s"," ","m","y"," ","h","a","i","r"," ","s","o"," ","s","o",
      "f","t"," ","a","n","d"," ","c","l","e","a","n">>

ContentDryCurly ==
    <<"I","t"," ","m","a","k","e","s"," ","m","y"," ","d","r","y"," ","c","u","r","l","y",
      " ","h","a","i","r"," ","s","o"," ","s","o","f","t",","," ","s","m","o","o","t","h",
      " ","a","n","d"," ","f","u","l","l"," ","o","f"," ","s","h","i","n","e">>

ContentStuff ==
    <<"M","y"," ","h","a","i","r"," ","l","o","v","e","s"," ","t","h","i","s"," ","s","t","u",
      "f","f">>

ContentCant ==
    <<" ","I"," ","c","a","n","&","#","x","2","7",";","t"," ","l","i","v","e"," ","w","i","t",
      "h","o","u","t"," ","t","h","i","s"," ","w","a","s","h"," ">>

\* a review with three HTML entities
ContentAmp ==
    <<"M","y"," ","h","a","i","r"," ","i","s"," ","s","o","f","t"," ","&","a","m","p",";"," ",
      "s","h","i","n","y"," ","&","a","m","p",";"," ","s","o"," ","s","m","o","o","t","h"," ",
      "&","a","m","p",";"," ","t","h","e"," ","r","e","s","t">>

TitleNewWash ==
    <<"N","e","w"," ","W","a","s","h">>

TitleDispenser ==
    <<"N","e","w"," ","W","a","s","h"," ","D","i","s","p","e","n","s","e","r"," ","w","i","t",
      "h"," ","P","u","m","p">>

TitleHairBalmDot ==
    <<"H","a","i","r"," ","B","a","l","m",".">>

ContentLong ==
    <<"I"," ","h","a","v","e"," ","t","h","i","c","k"," ","w","a","v","y"," ","h","a","i","r",
      " ","a","n","d"," ","t","h","i","s"," ","i","s"," ","g","r","e","a","t",","," ","g","o",
      "o","d",","," ","n","i","c","e","!"," ","I"," ","a","p","p","l","y"," ","a"," ","l","i",
      "t","t","l","e"," ","t","o"," ","d","a","m","p"," ","h","a","i","r",","," ","c","o","m",
      "b"," ","i","t"," ","t","h","r","o","u","g","h"," ","a","n","d"," ","a","i","r"," ","d",
      "r","y","."," ","M","y"," ","w","a","v","e","s"," ","l","o","o","k"," ","s","m","o","o",
      "t","h",","," ","s","h","i","n","y"," ","a","n","d"," ","f","u","l","l"," ","o","f"," ",
      "v","o","l","u","m","e"," ","a","l","l"," ","d","a","y"," ","l","o","n","g",".">>

-----------------------------------------------------------------------------
(* String literals the source uses in more than one place.                   *)

Str_pre_wash_key ==
    <<"p","r","e","-","w","a","s","h">>

Str_pre_wash ==
    <<"p","r","e"," ","w","a","s","h">>

Str_hair_balm ==
    <<"h","a","i","r"," ","b","a","l","m">>

Str_bond_boost ==
    <<"b","o","n","d"," ","b","o","o","s","t">>

Str_bond_boost_for_new_wash ==
    <<"b","o","n","d"," ","b","o","o","s","t"," ","f","o","r"," ","n","e","w"," ","w","a","s",
      "h">>

Str_bond_serum ==
    <<"b","o","n","d"," ","s","e","r","u","m">>

Str_undressed ==
    <<"u","n","d","r","e","s","s","e","d">>

Str_new_wash_original ==
    <<"n","e","w"," ","w","a","s","h"," ","o","r","i","g","i","n","a","l">>

Str_new_wash_rich ==
    <<"n","e","w"," ","w","a","s","h"," ","r","i","c","h">>

Str_marker ==
    <<"w","h","a","t"," ","c","u","s","t","o","m","e","r","s"," ","a","r","e"," ","s","a","y",
      "i","n","g">>

Str_new_wash ==
    <<"n","e","w"," ","w","a","s","h">>

\* src/app.py line 508
product_names ==
    << Str_hair_balm,
       Str_new_wash,
       Str_undressed,
       Str_bond_boost,
       <<"p","r","i","m","e","r">>,                        \* 'primer'
       <<"r","i","c","h">>,                                \* 'rich'
       <<"o","r","i","g","i","n","a","l">> >>              \* 'original'

\* src/app.py line 531-539
problematic_patterns ==
    << <<"s","m","e","d","s">>,                            \* 'smeds'
       <<"l","o","v","e","l","y">>,                        \* 'lovely'
       <<"n","i","c","e">>,                                \* 'nice'
       <<"g","o","o","d">>,                                \* 'good'
       <<"g","r","e","a","t">>,                            \* 'great'
       <<"a","w","e","s","o","m","e">>,                    \* 'awesome'
       <<"a","m","a","z","i","n","g">> >>                  \* 'amazing'

\* src/app.py line 556
meaningful_words ==
    << <<"h","a","i","r">>,                                \* 'hair'
       <<"c","u","r","l","s">>,                            \* 'curls'
       <<"w","a","v","e","s">>,                            \* 'waves'
       <<"s","o","f","t">>,                                \* 'soft'
       <<"s","m","o","o","t","h">>,                        \* 'smooth'
       <<"f","r","i","z","z">>,                            \* 'frizz'
       <<"m","o","i","s","t","u","r","e">>,                \* 'moisture'
       <<"s","h","i","n","e">>,                            \* 'shine'
       <<"v","o","l","u","m","e">>,                        \* 'volume'
       <<"t","e","x","t","u","r","e">>,                    \* 'texture'
       <<"d","e","f","i","n","e","d">>,                    \* 'defined'
       <<"d","r","y">>,                                    \* 'dry'
       <<"w","a","s","h">>,                                \* 'wash'
       <<"u","s","e">>,                                    \* 'use'
       <<"p","r","o","d","u","c","t">>,                    \* 'product'
       <<"l","o","v","e">>,                                \* 'love'
       <<"l","i","k","e">>,                                \* 'like'
       <<"w","o","r","k","s">>,                            \* 'works'
       <<"f","e","e","l">>,                                \* 'feel'
       <<"l","o","o","k">> >>                              \* 'look'

\* src/app.py line 586
benefit_keywords ==
    << <<"s","o","f","t">>,                                \* 'soft'
       <<"s","m","o","o","t","h">>,                        \* 'smooth'
       <<"d","e","f","i","n","e","d">>,                    \* 'defined'
       <<"c","u","r","l","s">>,                            \* 'curls'
       <<"w","a","v","e","s">>,                            \* 'waves'
       <<"f","r","i","z","z">>,                            \* 'frizz'
       <<"m","o","i","s","t","u","r","e">>,                \* 'moisture'
       <<"s","h","i","n","e">>,                            \* 'shine'
       <<"v","o","l","u","m","e">>,                        \* 'volume'
       <<"t","e","x","t","u","r","e">>,                    \* 'texture'
       <<"d","r","y">>,                                    \* 'dry'
       <<"o","i","l","y">>,                                \* 'oily'
       <<"t","h","i","c","k">>,                            \* 'thick'
       <<"t","h","i","n">>,                                \* 'thin'
       <<"f","i","n","e">>,                                \* 'fine'
       <<"c","o","a","r","s","e">> >>                      \* 'coarse'

\* src/app.py line 591
hair_type_keywords ==
    << <<"c","u","r","l","y">>,                            \* 'curly'
       <<"w","a","v","y">>,                                \* 'wavy'
       <<"s","t","r","a","i","g","h","t">>,                \* 'straight'
       <<"f","i","n","e">>,                                \* 'fine'
       <<"t","h","i","c","k">>,                            \* 'thick'
       <<"d","r","y">>,                                    \* 'dry'
       <<"o","i","l","y">>,                                \* 'oily'
       <<"c","o","l","o","r","-","t","r","e","a","t","e","d">>, \* 'color-treated'
       <<"d","a","m","a","g","e","d">> >>                  \* 'damaged'

\* src/app.py line 596
usage_keywords ==
    << <<"a","i","r"," ","d","r","y">>,                    \* 'air dry'
       <<"b","l","o","w"," ","d","r","y">>,                \* 'blow dry'
       <<"w","a","s","h">>,                                \* 'wash'
       <<"u","s","e">>,                                    \* 'use'
       <<"a","p","p","l","y">>,                            \* 'apply'
       <<"l","e","a","v","e"," ","i","n">>,                \* 'leave in'
       <<"r","i","n","s","e">>,                            \* 'rinse'
       <<"c","o","m","b">>,                                \* 'comb'
       <<"b","r","u","s","h">> >>                          \* 'brush'

\* src/app.py line 607
generic_words ==
    << <<"g","o","o","d">>,                                \* 'good'
       <<"g","r","e","a","t">>,                            \* 'great'
       <<"n","i","c","e">>,                                \* 'nice'
       <<"l","o","v","e","l","y">>,                        \* 'lovely'
       <<"a","w","e","s","o","m","e">>,                    \* 'awesome'
       <<"a","m","a","z","i","n","g">>,                    \* 'amazing'
       <<"p","e","r","f","e","c","t">> >>                  \* 'perfect'

\* src/app.py lines 106-109
recommendation_patterns ==
    << <<"i"," ","r","e","c","o","m","m","e","n","d">>,    \* 'i recommend'
       <<"i"," ","s","u","g","g","e","s","t">>,            \* 'i suggest'
       <<"a","d","d","i","n","g">>,                        \* 'adding'
       <<"a","l","s","o"," ","s","u","g","g","e","s","t">>, \* 'also suggest'
       <<"a","l","s","o"," ","r","e","c","o","m","m","e","n","d">>, \* 'also recommend'
       <<"s","u","g","g","e","s","t"," ","a","d","d","i","n","g">>, \* 'suggest adding'
       <<"r","e","c","o","m","m","e","n","d"," ","a","d","d","i","n","g">>, \* 'recommend adding'
       <<"t","r","y">>,                                    \* 'try'
       <<"u","s","e">>,                                    \* 'use'
       <<"s","t","a","r","t"," ","w","i","t","h">> >>      \* 'start with'

\* an entry of product_variations whose only variation is its key
OnlyItself(key) == [key |-> key, variations |-> << key >>]

\* src/app.py lines 166-183, in the dict's order
product_variations ==
    << OnlyItself(Str_new_wash_original),
       OnlyItself(Str_new_wash_rich),
       [key |-> Str_hair_balm,
        variations |-> << Str_hair_balm, <<"b","a","l","m">> >>],
       OnlyItself(Str_undressed),
       OnlyItself(<<"o","i","l">>),
       OnlyItself(<<"p","r","i","m","e","r">>),
       OnlyItself(Str_bond_boost),
       OnlyItself(Str_bond_boost_for_new_wash),
       OnlyItself(Str_bond_serum),
       [key |-> Str_pre_wash_key,
        variations |-> << Str_pre_wash_key, Str_pre_wash >>],
       OnlyItself(<<"r","e","d"," ","c","o","l","o","r"," ","b","o","o","s","t">>),
       OnlyItself(<<"p","u","r","p","l","e"," ","c","o","l","o","r"," ",
                    "b","o","o","s","t">>),
       OnlyItself(<<"b","l","u","e"," ","c","o","l","o","r"," ","b","o","o","s","t">>),
       OnlyItself(<<"p","o","w","d","e","r">>),
       OnlyItself(<<"r","o","o","t"," ","l","i","f","t">>),
       OnlyItself(<<"w","a","x">>) >>

\* VariationsOf with the generic 'new wash' listed as a variation of
\* 'new wash rich' (the entry the source keeps specific)
VariationsOfGenericNewWash(k) ==
    IF k = Str_new_wash_rich THEN <<Str_new_wash_rich, Str_new_wash>>
    ELSE IF \E i \in 1..Len(product_variations) : product_variations[i].key = k
    THEN product_variations[
             CHOOSE i \in 1..Len(product_variations) :
                 product_variations[i].key = k].variations
    ELSE <<>>

\* the curated variations of a lookup key, <<>> when it has none
VariationsOf(k) ==
    IF \E i \in 1..Len(product_variations) : product_variations[i].key = k
    THEN product_variations[
             CHOOSE i \in 1..Len(product_variations) :
                 product_variations[i].key = k].variations
    ELSE <<>>

RecommendationWindow == 200
ComprehensiveWindow == 300
MinAccepted == 2
MaxResults == 4

-----------------------------------------------------------------------------
(* extract_product_images, src/app.py lines 54-253.  A product_info dict    *)
(* is modelled by its 'name'; img_url and url travel with it unread.        *)

\* d[k] = v on an insertion-ordered dict: an existing key keeps its place
DictSet(d, k, v) ==
    IF \E i \in 1..Len(d) : d[i].key = k
    THEN [i \in 1..Len(d) |->
             IF d[i].key = k THEN [key |-> k, name |-> v] ELSE d[i]]
    ELSE Append(d, [key |-> k, name |-> v])

\* lines 88-99: the extra key stored for a product, <<>> when there is none
AliasKey(product_name) ==
    IF product_name = Str_pre_wash_key THEN Str_pre_wash
    ELSE IF product_name = Str_hair_balm THEN Str_hair_balm
    ELSE IF product_name = Str_bond_boost THEN Str_bond_boost
    ELSE IF product_name = Str_bond_boost_for_new_wash THEN Str_bond_boost
    ELSE IF product_name = Str_bond_serum THEN Str_bond_serum
    ELSE IF product_name = Str_undressed THEN Str_undressed
    ELSE <<>>

RECURSIVE BuildMapFrom(_, _, _)
\* lines 70-99: the loop over the catalog
BuildMapFrom(ps, i, d) ==
    IF i > Len(ps) THEN d
    ELSE LET product_name == Lower(ps[i])
             d1 == DictSet(d, product_name, ps[i])
             alias == AliasKey(product_name)
         IN  BuildMapFrom(ps, i + 1,
                          IF alias # <<>> THEN DictSet(d1, alias, ps[i]) ELSE d1)

\* Accept that stores the lower-cased lookup form of the name
AcceptLowered(st, name) ==
    [images |-> Append(st.images, Lower(name)),
     found |-> st.found \cup {Lower(name)}]

\* product_images.append(product_info); found_products.add(name)
Accept(st, name) ==
    [images |-> Append(st.images, name), found |-> st.found \cup {name}]

\* some pattern occurs in the text with its first occurrence less than
\* `window` characters from position pos (ppos: the patterns' find() results)
NearPattern(ppos, pos, window) ==
    \E j \in 1..Len(ppos) : ppos[j] # -1 /\ Abs(ppos[j] - pos) < window

RECURSIVE RecommendationTierWide(_, _, _, _, _)
\* RecommendationTier with the window of the comprehensive tier
RecommendationTierWide(d, i, tl, ppos, st) ==
    IF i > Len(d) THEN st
    ELSE LET product_pos == Find(d[i].key, tl)
             hit == /\ d[i].name \notin st.found
                    /\ product_pos # -1
                    /\ NearPattern(ppos, product_pos, ComprehensiveWindow)
         IN  RecommendationTierWide(d, i + 1, tl, ppos,
                                    IF hit THEN Accept(st, d[i].name) ELSE st)

RECURSIVE RecommendationTier(_, _, _, _, _)
\* lines 112-127
RecommendationTier(d, i, tl, ppos, st) ==
    IF i > Len(d) THEN st
    ELSE LET product_pos == Find(d[i].key, tl)
             hit == /\ d[i].name \notin st.found
                    /\ product_pos # -1
                    /\ NearPattern(ppos, product_pos, RecommendationWindow)
         IN  RecommendationTier(d, i + 1, tl, ppos,
                                IF hit THEN Accept(st, d[i].name) ELSE st)

RECURSIVE ExactFallbackLoop(_, _, _, _)
\* lines 131-134
ExactFallbackLoop(d, i, tl, st) ==
    IF i > Len(d) THEN st
    ELSE LET hit == Contains(d[i].key, tl) /\ d[i].name \notin st.found
         IN  ExactFallbackLoop(d, i + 1, tl,
                               IF hit THEN Accept(st, d[i].name) ELSE st)

\* lines 130-134
ExactFallbackTier(d, tl, st) ==
    IF st.images = <<>> THEN ExactFallbackLoop(d, 1, tl, st) ELSE st

RECURSIVE ComprehensiveTier(_, _, _, _, _)
\* lines 138-161
ComprehensiveTier(d, i, tl, ppos, st) ==
    IF i > Len(d) THEN st
    ELSE LET product_pos == Find(Lower(d[i].name), tl)
             hit == /\ d[i].name \notin st.found
                    /\ product_pos # -1
                    /\ NearPattern(ppos, product_pos, ComprehensiveWindow)
         IN  ComprehensiveTier(d, i + 1, tl, ppos,
                               IF hit THEN Accept(st, d[i].name) ELSE st)

RECURSIVE VariationTier(_, _, _, _)
\* lines 185-196
VariationTier(d, i, tl, st) ==
    IF i > Len(d) THEN st
    ELSE LET vs == VariationsOf(Lower(d[i].key))
             hit == /\ d[i].name \notin st.found
                    /\ \E j \in 1..Len(vs) : Contains(vs[j], tl)
         IN  VariationTier(d, i + 1, tl, IF hit THEN Accept(st, d[i].name) ELSE st)

RECURSIVE DirectTier(_, _, _, _)
\* lines 200-207
DirectTier(d, i, tl, st) ==
    IF i > Len(d) THEN st
    ELSE LET hit == /\ d[i].name \notin st.found
                    /\ Contains(Lower(d[i].name), tl)
         IN  DirectTier(d, i + 1, tl, IF hit THEN Accept(st, d[i].name) ELSE st)

\* Select that leaves seen_names as it was
SelectForgetsSeen(fs, name) ==
    [final |-> Append(fs.final, name), seen |-> fs.seen]

\* final_products.append(product); seen_names.add(name)
Select(fs, name) ==
    [final |-> Append(fs.final, name), seen |-> fs.seen \cup {name}]

\* lines 227-229: the text before the first "what customers are saying"
MainSection(tl) == SplitFirst(tl, Str_marker)

\* the test of lines 220-229 passed by every product of the pool
InMainSectionAlways(name, tl) == TRUE

\* InMainSection without the split on the marker
InMainSectionWholeText(name, tl) == Contains(Lower(name), tl)

\* lines 217-231: the test of the first selection loop
InMainSection(name, tl) ==
    /\ Contains(Lower(name), tl)
    /\ Contains(Lower(name), MainSection(tl))

RECURSIVE SelectionLoop(_, _, _, _)
\* lines 216-238
SelectionLoop(images, i, tl, fs) ==
    IF i > Len(images) THEN fs
    ELSE LET hit == images[i] \notin fs.seen /\ InMainSection(images[i], tl)
         IN  SelectionLoop(images, i + 1, tl,
                           IF hit THEN Select(fs, images[i]) ELSE fs)

RECURSIVE PaddingLoopUncapped(_, _, _)
\* PaddingLoop without the test on the length of the result
PaddingLoopUncapped(images, i, fs) ==
    IF i > Len(images) THEN fs
    ELSE LET hit == images[i] \notin fs.seen
         IN  PaddingLoopUncapped(images, i + 1,
                                 IF hit THEN Select(fs, images[i]) ELSE fs)

RECURSIVE PaddingLoop(_, _, _)
\* lines 243-248
PaddingLoop(images, i, fs) ==
    IF i > Len(images) THEN fs
    ELSE LET hit == images[i] \notin fs.seen /\ Len(fs.final) < MaxResults
         IN  PaddingLoop(images, i + 1, IF hit THEN Select(fs, images[i]) ELSE fs)

\* FallbackPadding that puts the padded products in front of the selected ones
FallbackPaddingInFront(images, fs) ==
    IF Len(fs.final) < MinAccepted
    THEN LET padded == PaddingLoop(images, 1, fs)
         IN  [final |-> SubSeq(padded.final, Len(fs.final) + 1, Len(padded.final))
                            \o fs.final,
              seen |-> padded.seen]
    ELSE fs

\* lines 242-248
FallbackPadding(images, fs) ==
    IF Len(fs.final) < MinAccepted THEN PaddingLoop(images, 1, fs) ELSE fs

-----------------------------------------------------------------------------
(* The inputs the extractor is run on.                                      *)

MaxFrags == 3
MaxCatalog == 8
FillerLen == 210

Repeat(c, n) == [i \in 1..n |-> c]

\* a stretch of text without product names or recommendation phrases
FragFiller == Repeat(".", FillerLen)

Fragments ==
    <<FragRecommend, FragReviews, FragTry, FragBondBoost,
      FragBondBoostForNewWash, FragPrimerWax, FragBoil, FragFiller, FragBalm>>

RECURSIVE Concat(_)
\* the fragments numbered by is, joined in that order
Concat(is) == IF is = <<>> THEN <<>> ELSE Fragments[Head(is)] \o Concat(Tail(is))

RECURSIVE ArrangementsOf(_, _)
\* the sequences of n distinct numbers of 1..k
ArrangementsOf(k, n) ==
    IF n = 0 THEN {<<>>}
    ELSE {Append(a, i) : a \in ArrangementsOf(k, n - 1), i \in 1..k}
         \ {Append(a, a[j]) : a \in ArrangementsOf(k, n - 1), j \in 1..(n - 1)}

\* texts made of at most MaxFrags distinct fragments, in any order
Texts ==
    {Concat(a) : a \in UNION {ArrangementsOf(Len(Fragments), n) : n \in 0..MaxFrags}}

CatalogOrders ==
    {<<NewWashOriginal, HairBalm, NewWashRich, BondBoost, BondBoostForNewWash,
       Oil, Primer, Wax, PreWash>>,
     <<BondBoostForNewWash, BondBoost, HairBalm, NewWashRich, NewWashOriginal,
       Wax, Oil, Primer, PreWash>>}

Prefix(s, n) == SubSeq(s, 1, IF n < Len(s) THEN n ELSE Len(s))

\* the empty catalog, the first two products and the first MaxCatalog ones
Catalogs == {Prefix(o, n) : o \in CatalogOrders, n \in {0, 2, MaxCatalog}}

-----------------------------------------------------------------------------
(* extract_product_images as a state machine: one action per stage.         *)

InitExtract ==
    /\ text \in Texts
    /\ products \in Catalogs
    /\ text_lower = <<>>
    /\ product_name_to_image = <<>>
    /\ product_images = <<>>
    /\ found_products = {}
    /\ final_products = <<>>
    /\ seen_names = {}
    /\ pc = "start"
    /\ DEBUG_MODE = FALSE
    /\ calls = 1
    /\ previous = [final |-> <<>>, debug |-> FALSE]

Pool == [images |-> product_images, found |-> found_products]

SetPool(st) ==
    /\ product_images' = st.images
    /\ found_products' = st.found

\* BuildMap with found_products kept from one call to the next, as a set
\* created once outside the function would be
BuildMapKeepsFound ==
    /\ pc = "start"
    /\ product_images' = <<>>
    /\ text_lower' = Lower(text)
    /\ product_name_to_image' = BuildMapFrom(products, 1, <<>>)
    /\ pc' = "recommendation"
    /\ UNCHANGED <<text, products, found_products, final_products, seen_names>>
    /\ UNCHANGED <<callVars, reviewVars, qualityVars, chatVars, matchVars, routeVars>>

\* lines 56-102: the call's own locals are created, whatever DEBUG_MODE is
BuildMap ==
    /\ pc = "start"
    /\ product_images' = <<>>
    /\ text_lower' = Lower(text)
    /\ product_name_to_image' = BuildMapFrom(products, 1, <<>>)
    /\ found_products' = {}
    /\ pc' = "recommendation"
    /\ UNCHANGED <<text, products, final_products, seen_names>>
    /\ UNCHANGED <<callVars, reviewVars, qualityVars, chatVars, matchVars, routeVars>>

\* lines 102-127
RecommendationStep ==
    /\ pc = "recommendation"
    /\ SetPool(RecommendationTier(product_name_to_image, 1, text_lower,
                                  FindAll(recommendation_patterns, text_lower), Pool))
    /\ pc' = "exact"
    /\ UNCHANGED <<text, products, text_lower, product_name_to_image,
                   final_products, seen_names>>
    /\ UNCHANGED <<callVars, reviewVars, qualityVars, chatVars, matchVars, routeVars>>

\* lines 129-134
ExactFallbackStep ==
    /\ pc = "exact"
    /\ SetPool(ExactFallbackTier(product_name_to_image, text_lower, Pool))
    /\ pc' = "comprehensive"
    /\ UNCHANGED <<text, products, text_lower, product_name_to_image,
                   final_products, seen_names>>
    /\ UNCHANGED <<callVars, reviewVars, qualityVars, chatVars, matchVars, routeVars>>

\* lines 136-161
ComprehensiveStep ==
    /\ pc = "comprehensive"
    /\ SetPool(ComprehensiveTier(product_name_to_image, 1, text_lower,
                                 FindAll(recommendation_patterns, text_lower), Pool))
    /\ pc' = "variation"
    /\ UNCHANGED <<text, products, text_lower, product_name_to_image,
                   final_products, seen_names>>
    /\ UNCHANGED <<callVars, reviewVars, qualityVars, chatVars, matchVars, routeVars>>

\* lines 163-196
VariationStep ==
    /\ pc = "variation"
    /\ SetPool(VariationTier(product_name_to_image, 1, text_lower, Pool))
    /\ pc' = "direct"
    /\ UNCHANGED <<text, products, text_lower, product_name_to_image,
                   final_products, seen_names>>
    /\ UNCHANGED <<callVars, reviewVars, qualityVars, chatVars, matchVars, routeVars>>

\* lines 198-207
DirectStep ==
    /\ pc = "direct"
    /\ SetPool(DirectTier(product_name_to_image, 1, text_lower, Pool))
    /\ pc' = "select"
    /\ UNCHANGED <<text, products, text_lower, product_name_to_image,
                   final_products, seen_names>>
    /\ UNCHANGED <<callVars, reviewVars, qualityVars, chatVars, matchVars, routeVars>>

\* lines 209-238
SelectionStep ==
    /\ pc = "select"
    /\ LET fs == SelectionLoop(product_images, 1, text_lower,
                               [final |-> <<>>, seen |-> {}])
       IN  /\ final_products' = fs.final
           /\ seen_names' = fs.seen
    /\ pc' = "pad"
    /\ UNCHANGED <<text, products, text_lower, product_name_to_image,
                   product_images, found_products>>
    /\ UNCHANGED <<callVars, reviewVars, qualityVars, chatVars, matchVars, routeVars>>

\* lines 240-253
PaddingStep ==
    /\ pc = "pad"
    /\ LET fs == FallbackPadding(product_images,
                                 [final |-> final_products, seen |-> seen_names])
       IN  /\ final_products' = fs.final
           /\ seen_names' = fs.seen
    /\ pc' = "done"
    /\ UNCHANGED <<text, products, text_lower, product_name_to_image,
                   product_images, found_products>>
    /\ UNCHANGED <<callVars, reviewVars, qualityVars, chatVars, matchVars, routeVars>>

NextExtract ==
    \/ BuildMap
    \/ RecommendationStep
    \/ ExactFallbackStep
    \/ ComprehensiveStep
    \/ VariationStep
    \/ DirectStep
    \/ SelectionStep
    \/ PaddingStep

\* the calls made with the same arguments, one after the other
MaxCalls == 2

\* the texts of the repeated calls
RepeatTexts ==
    {Concat(a) : a \in UNION {ArrangementsOf(Len(Fragments), n) :
                                 n \in 0..(MaxFrags - 1)}}

InitRepeat ==
    /\ text \in RepeatTexts
    /\ products \in Catalogs
    /\ text_lower = <<>>
    /\ product_name_to_image = <<>>
    /\ product_images = <<>>
    /\ found_products = {}
    /\ final_products = <<>>
    /\ seen_names = {}
    /\ pc = "start"
    /\ DEBUG_MODE \in BOOLEAN
    /\ calls = 1
    /\ previous = [final |-> <<>>, debug |-> FALSE]

\* src/app.py line 397, in a later request: extract_product_images is called
\* again with the same text and catalog, under either value of the flag
CallAgain ==
    /\ pc = "done"
    /\ calls < MaxCalls
    /\ previous' = [final |-> final_products, debug |-> DEBUG_MODE]
    /\ calls' = calls + 1
    /\ DEBUG_MODE' \in BOOLEAN
    /\ pc' = "start"
    /\ UNCHANGED <<text, products, text_lower, product_name_to_image,
                   product_images, found_products, final_products, seen_names>>
    /\ UNCHANGED <<reviewVars, qualityVars, chatVars, matchVars, routeVars>>

NextRepeat ==
    \/ BuildMap
    \/ RecommendationStep
    \/ ExactFallbackStep
    \/ ComprehensiveStep
    \/ VariationStep
    \/ DirectStep
    \/ SelectionStep
    \/ PaddingStep
    \/ CallAgain

-----------------------------------------------------------------------------
(* More Python string primitives, used by the review matcher.               *)

Whitespace == {" ", "\n", "\t", "\r"}

\* s.strip()
Strip(s) ==
    LET keep == {i \in 1..Len(s) : s[i] \notin Whitespace}
    IN  IF keep = {} THEN <<>>
        ELSE SubSeq(s, CHOOSE i \in keep : \A j \in keep : i <= j,
                       CHOOSE i \in keep : \A j \in keep : i >= j)

\* s.split(): the words between runs of whitespace
Split(s) ==
    LET starts == {i \in 1..Len(s) : s[i] \notin Whitespace
                                      /\ (i = 1 \/ s[i - 1] \in Whitespace)}
        ends == {i \in 1..Len(s) : s[i] \notin Whitespace
                                    /\ (i = Len(s) \/ s[i + 1] \in Whitespace)}
        Nth(S, k) == CHOOSE i \in S : Cardinality({j \in S : j < i}) = k - 1
    IN  [k \in 1..Cardinality(starts) |-> SubSeq(s, Nth(starts, k), Nth(ends, k))]

RECURSIVE ReplaceFrom(_, _, _, _)
\* the part of s.replace(old, new) that comes from s[i:]
ReplaceFrom(s, i, old, new) ==
    LET at == {k \in i..(Len(s) - Len(old)) : MatchAt(old, s, k)}
        first == CHOOSE k \in at : \A j \in at : k <= j
    IN  IF at = {} THEN SubSeq(s, i + 1, Len(s))
        ELSE SubSeq(s, i + 1, first) \o new \o ReplaceFrom(s, first + Len(old), old, new)

\* s.replace(old, new), old not empty
Replace(s, old, new) == ReplaceFrom(s, 0, old, new)

\* s.count(c) for a single character c
Count(s, c) == Cardinality({i \in 1..Len(s) : s[i] = c})

\* set(s)
CharSet(s) == {s[i] : i \in 1..Len(s)}

\* set(xs) of a list
ListSet(xs) == {xs[i] : i \in 1..Len(xs)}

\* sum(1 for keyword in keywords if keyword in s)
CountPresent(keywords, s) ==
    Cardinality({i \in 1..Len(keywords) : Contains(keywords[i], s)})

\* any(keyword in s for keyword in keywords)
AnyPresent(keywords, s) == \E i \in 1..Len(keywords) : Contains(keywords[i], s)

-----------------------------------------------------------------------------
(* The review matcher, src/app.py lines 448-682.  Quality scores are kept   *)
(* in tenths: 45 stands for 4.5.                                            *)

MinContentLength == 15
MinDistinctChars == 5
MinWords == 3
ShortReviewLength == 25
MeaningfulLength == 40
MinReviewScore == 4
PrimaryThreshold == 45
FallbackThreshold == 40

\* line 505
CleanContent(content) ==
    Replace(Replace(Replace(content, <<"&","#","x","2","7",";">>, <<"'">>),
                    <<"&","q","u","o","t",";">>, <<"\"">>),
            <<"&","a","m","p",";">>, <<"&">>)

\* the rule of lines 551-553 with a quarter in place of 30%
MostlyRepeatedBelowQuarter(content_clean) ==
    4 * Cardinality(CharSet(Lower(content_clean))) < Len(content_clean)

\* lines 551-553: fewer than 30% distinct characters
MostlyRepeated(content_clean) ==
    10 * Cardinality(CharSet(Lower(content_clean))) < 3 * Len(content_clean)

\* is_quality_review without the length rule of lines 512-514
is_quality_review_NoMinLength(content) ==
    LET content_clean == CleanContent(content)
        stripped == Strip(content_clean)
        words == Split(content_clean)
        lower == Lower(content_clean)
    IN  /\ content # <<>>
        /\ \A i \in 1..Len(product_names) : Lower(stripped) # product_names[i]
        /\ Cardinality(CharSet(content_clean)) >= MinDistinctChars
        /\ Len(words) >= MinWords
        /\ Cardinality(ListSet(words)) >= MinWords
        /\ ~(Len(stripped) < ShortReviewLength /\ AnyPresent(problematic_patterns, lower))
        /\ ~(10 * Count(content_clean, "!") > Len(content_clean))
        /\ ~MostlyRepeated(content_clean)
        /\ ~(Len(stripped) < MeaningfulLength /\ ~AnyPresent(meaningful_words, lower))

\* lines 499-563
is_quality_review(content) ==
    LET content_clean == CleanContent(content)
        stripped == Strip(content_clean)
        words == Split(content_clean)
        lower == Lower(content_clean)
    IN  /\ content # <<>>
        /\ \A i \in 1..Len(product_names) : Lower(stripped) # product_names[i]
        /\ Len(stripped) >= MinContentLength
        /\ Cardinality(CharSet(content_clean)) >= MinDistinctChars
        /\ Len(words) >= MinWords
        /\ Cardinality(ListSet(words)) >= MinWords
        /\ ~(Len(stripped) < ShortReviewLength /\ AnyPresent(problematic_patterns, lower))
        /\ ~(10 * Count(content_clean, "!") > Len(content_clean))
        /\ ~MostlyRepeated(content_clean)
        /\ ~(Len(stripped) < MeaningfulLength /\ ~AnyPresent(meaningful_words, lower))

\* the length bonus with inclusive boundaries
LengthBonusInclusive(content_length) ==
    IF content_length >= 150 THEN 20
    ELSE IF content_length >= 100 THEN 15
    ELSE IF content_length >= 50 THEN 10
    ELSE IF content_length >= 30 THEN 5
    ELSE 0

\* lines 574-583, in tenths
LengthBonus(content_length) ==
    IF content_length > 150 THEN 20
    ELSE IF content_length > 100 THEN 15
    ELSE IF content_length > 50 THEN 10
    ELSE IF content_length > 30 THEN 5
    ELSE 0

\* lines 600-604, in tenths
ShortPenalty(content_length) ==
    IF content_length < 30 THEN 10
    ELSE IF content_length < 50 THEN 5
    ELSE 0

\* lines 570-612, in tenths; score is the star rating
calculate_quality_score(content, score) ==
    LET content_length == Len(Strip(content))
        lower == Lower(content)
    IN  10 * score
        + LengthBonus(content_length)
        + 3 * CountPresent(benefit_keywords, lower)
        + 4 * CountPresent(hair_type_keywords, lower)
        + 2 * CountPresent(usage_keywords, lower)
        - ShortPenalty(content_length)
        - (IF CountPresent(generic_words, lower) > 2 THEN 5 ELSE 0)

\* metadata.get(field, default)
Get(metadata, field, default) ==
    IF field \in DOMAIN metadata THEN metadata[field] ELSE default

\* TitleMatches with any() where the source has all()
TitleMatchesAnyWord(product_title, review_product_title) ==
    LET product_words == Split(Lower(product_title))
        review_words ==
            Split(Replace(Replace(Lower(review_product_title), <<".">>, <<>>),
                          <<",">>, <<>>))
    IN  \E i \in 1..Len(product_words) :
            \E j \in 1..Len(review_words) : review_words[j] = product_words[i]

\* lines 490-496: every word of the product title is a word of the review's
\* product title
TitleMatches(product_title, review_product_title) ==
    LET product_words == Split(Lower(product_title))
        review_words ==
            Split(Replace(Replace(Lower(review_product_title), <<".">>, <<>>),
                          <<",">>, <<>>))
    IN  \A i \in 1..Len(product_words) :
            \E j \in 1..Len(review_words) : review_words[j] = product_words[i]

\* Eligible without the test on the rating
EligibleAnyScore(product_title, metadata) ==
    /\ TitleMatches(product_title, Lower(Get(metadata, "product_title", <<>>)))
    /\ is_quality_review(Strip(Get(metadata, "review_content", <<>>)))

\* lines 565-567 and 657: the three filters on one match
Eligible(product_title, metadata) ==
    /\ Get(metadata, "review_score", 0) >= MinReviewScore
    /\ TitleMatches(product_title, Lower(Get(metadata, "product_title", <<>>)))
    /\ is_quality_review(Strip(Get(metadata, "review_content", <<>>)))

\* lines 618-624 and 660-666: the dict built for an accepted match
Snippet(metadata) ==
    LET review_content == Strip(Get(metadata, "review_content", <<>>))
        review_score == Get(metadata, "review_score", 0)
    IN  [review_content |-> review_content,
         review_score |-> review_score,
         quality_score |-> calculate_quality_score(review_content, review_score),
         match |-> metadata]

\* a match whose metadata is not a mapping: metadata.get raises
IsNone(metadata) == "none" \in DOMAIN metadata

RECURSIVE PrimaryLoopNoStop(_, _, _, _, _)
\* PrimaryLoop without the break of lines 631-632
PrimaryLoopNoStop(matches, i, product_title, top_k, positive_reviews) ==
    IF i > Len(matches) THEN [reviews |-> positive_reviews, error |-> FALSE]
    ELSE IF IsNone(matches[i]) THEN [reviews |-> positive_reviews, error |-> TRUE]
    ELSE IF ~Eligible(product_title, matches[i])
         THEN PrimaryLoopNoStop(matches, i + 1, product_title, top_k,
                                positive_reviews)
         ELSE LET s == Snippet(matches[i])
              IN  PrimaryLoopNoStop(matches, i + 1, product_title, top_k,
                                    IF s.quality_score >= PrimaryThreshold
                                    THEN Append(positive_reviews, s)
                                    ELSE positive_reviews)

RECURSIVE PrimaryLoopRelaxed(_, _, _, _, _)
\* PrimaryLoop with the fallback's threshold
PrimaryLoopRelaxed(matches, i, product_title, top_k, positive_reviews) ==
    IF i > Len(matches) THEN [reviews |-> positive_reviews, error |-> FALSE]
    ELSE IF IsNone(matches[i]) THEN [reviews |-> positive_reviews, error |-> TRUE]
    ELSE IF ~Eligible(product_title, matches[i])
         THEN PrimaryLoopRelaxed(matches, i + 1, product_title, top_k,
                                 positive_reviews)
         ELSE LET s == Snippet(matches[i])
                  collected == IF s.quality_score >= FallbackThreshold
                               THEN Append(positive_reviews, s)
                               ELSE positive_reviews
              IN  IF Len(collected) >= top_k * 2
                  THEN [reviews |-> collected, error |-> FALSE]
                  ELSE PrimaryLoopRelaxed(matches, i + 1, product_title, top_k,
                                          collected)

RECURSIVE PrimaryLoop(_, _, _, _, _)
\* lines 482-632: the scan stops once 2 * top_k reviews are collected;
\* error: the scan raised, on a match without usable metadata
PrimaryLoop(matches, i, product_title, top_k, positive_reviews) ==
    IF i > Len(matches) THEN [reviews |-> positive_reviews, error |-> FALSE]
    ELSE IF IsNone(matches[i]) THEN [reviews |-> positive_reviews, error |-> TRUE]
    ELSE IF ~Eligible(product_title, matches[i])
         THEN PrimaryLoop(matches, i + 1, product_title, top_k, positive_reviews)
         ELSE LET s == Snippet(matches[i])
                  collected == IF s.quality_score >= PrimaryThreshold
                               THEN Append(positive_reviews, s)
                               ELSE positive_reviews
              IN  IF Len(collected) >= top_k * 2
                  THEN [reviews |-> collected, error |-> FALSE]
                  ELSE PrimaryLoop(matches, i + 1, product_title, top_k, collected)

RECURSIVE FallbackLoop(_, _, _, _)
\* lines 645-666
FallbackLoop(matches, i, product_title, fallback_reviews) ==
    IF i > Len(matches) THEN [reviews |-> fallback_reviews, error |-> FALSE]
    ELSE IF IsNone(matches[i]) THEN [reviews |-> fallback_reviews, error |-> TRUE]
    ELSE LET s == Snippet(matches[i])
             hit == /\ Eligible(product_title, matches[i])
                    /\ s.quality_score >= FallbackThreshold
         IN  FallbackLoop(matches, i + 1, product_title,
                          IF hit THEN Append(fallback_reviews, s) ELSE fallback_reviews)

RECURSIVE InsertByQuality(_, _)
\* x placed after every element whose quality is not lower (stable, descending)
InsertByQuality(sorted, x) ==
    IF sorted = <<>> THEN <<x>>
    ELSE IF Head(sorted).quality_score >= x.quality_score
         THEN <<Head(sorted)>> \o InsertByQuality(Tail(sorted), x)
         ELSE <<x>> \o sorted

RECURSIVE SortByQuality(_, _)
\* list.sort(key=quality_score, reverse=True)
SortByQuality(xs, i) ==
    IF i = 0 THEN <<>> ELSE InsertByQuality(SortByQuality(xs, i - 1), xs[i])

\* xs[:n]
Take(xs, n) == SubSeq(xs, 1, IF n < Len(xs) THEN n ELSE Len(xs))

\* TopReviews without the sort
TopReviewsUnsorted(reviews, top_k) == Take(reviews, top_k)

\* lines 634-637 and 668-670
TopReviews(reviews, top_k) == Take(SortByQuality(reviews, Len(reviews)), top_k)

\* reviews_by_product[title] = reviews on an insertion-ordered dict
PutReviews(d, title, reviews) ==
    IF \E i \in 1..Len(d) : d[i].title = title
    THEN [i \in 1..Len(d) |->
             IF d[i].title = title THEN [title |-> title, reviews |-> reviews]
             ELSE d[i]]
    ELSE Append(d, [title |-> title, reviews |-> reviews])

\* Catches for a handler that names one error class only
CatchesSearchOnly(error) == error = "search"

\* line 679: `except Exception` catches every error the body can raise
Catches(error) == TRUE

-----------------------------------------------------------------------------
(* The review corpus and what the vector search can answer.                 *)

MaxTitles == 3
MaxMatches == 4
MaxPerProduct == 2

RecDispenser ==
    [product_title |-> TitleDispenser, review_score |-> 5,
     review_content |-> ContentSoftCurly]

RecNewWash ==
    [product_title |-> TitleNewWash, review_score |-> 5,
     review_content |-> ContentClean]

RecBalm ==
    [product_title |-> TitleHairBalmDot, review_score |-> 4,
     review_content |-> ContentClean]

\* a detailed review under a rating below MinReviewScore
RecBalmLowScore ==
    [product_title |-> HairBalm, review_score |-> 3,
     review_content |-> ContentDryCurly]

\* an eligible review whose quality score is below both thresholds
RecBalmWeak ==
    [product_title |-> HairBalm, review_score |-> 4,
     review_content |-> ContentStuff]

RecOriginal ==
    [product_title |-> NewWashOriginal, review_score |-> 4,
     review_content |-> ContentClean]

\* the substantive review under five stars
RecOriginalLong ==
    [product_title |-> NewWashOriginal, review_score |-> 5,
     review_content |-> ContentTransformed]

\* the most detailed review of the corpus
RecOriginalBest ==
    [product_title |-> NewWashOriginal, review_score |-> 5,
     review_content |-> ContentDryCurly]

RecNoTitleNoScore == [review_content |-> ContentSoftCurly]

RecNone == [none |-> TRUE]

\* three rankings of the corpus, as a similarity search may order it
Rankings ==
    {<<RecOriginal, RecNewWash, RecDispenser, RecBalmWeak, RecBalm>>,
     <<RecBalm, RecNoTitleNoScore, RecBalmLowScore, RecNone, RecDispenser>>,
     <<RecNewWash, RecDispenser, RecOriginalBest, RecOriginalLong, RecBalmWeak>>}

\* index.query(..., top_k=top_k * 10): the first matches of a ranking
SearchResults(top_k) ==
    {Prefix(r, n) : r \in Rankings,
                    n \in 0..(IF MaxMatches < top_k * 10 THEN MaxMatches ELSE top_k * 10)}

ReviewTitles == <<TitleNewWash, HairBalm, NewWashOriginal, <<>>>>

TitleBatches ==
    {[i \in 1..Len(a) |-> ReviewTitles[a[i]]] :
        a \in UNION {ArrangementsOf(Len(ReviewTitles), n) : n \in 0..MaxTitles}}

-----------------------------------------------------------------------------
(* fetch_positive_reviews_for_products as a state machine.                  *)

InitReviews ==
    /\ product_titles \in TitleBatches
    /\ top_k_per_product \in 1..MaxPerProduct
    /\ rpc = "start"
    /\ idx = 1
    /\ results = <<>>
    /\ reviews_by_product = <<>>
    /\ returned = <<>>
    /\ exception = "none"
    /\ failed_at = 0

\* lines 450-459: the imports and the client; a failure here is an exception
\* inside the try block
FetchStart ==
    /\ rpc = "start"
    /\ \E ok \in BOOLEAN :
          IF ok THEN rpc' = "loop" /\ exception' = exception
          ELSE rpc' = "except" /\ exception' = "init"
    /\ reviews_by_product' = <<>>
    /\ idx' = 1
    /\ UNCHANGED <<product_titles, top_k_per_product, results, returned, failed_at>>
    /\ UNCHANGED <<extractVars, qualityVars, chatVars, matchVars, routeVars>>

\* lines 461-465: an empty title is skipped
SkipTitle ==
    /\ rpc = "loop"
    /\ idx <= Len(product_titles)
    /\ product_titles[idx] = <<>>
    /\ idx' = idx + 1
    /\ UNCHANGED <<product_titles, top_k_per_product, rpc, results,
                   reviews_by_product, returned, exception, failed_at>>
    /\ UNCHANGED <<extractVars, qualityVars, chatVars, matchVars, routeVars>>

\* lines 467-478: the embedding and the vector search answer
QueryProduct ==
    /\ rpc = "loop"
    /\ idx <= Len(product_titles)
    /\ product_titles[idx] # <<>>
    /\ \E matches \in SearchResults(top_k_per_product) :
          results' = matches
    /\ rpc' = "filter"
    /\ UNCHANGED <<product_titles, top_k_per_product, idx, reviews_by_product,
                   returned, exception, failed_at>>
    /\ UNCHANGED <<extractVars, qualityVars, chatVars, matchVars, routeVars>>

\* lines 471-478: the embedding or the vector search raises
QueryRaises ==
    /\ rpc = "loop"
    /\ idx <= Len(product_titles)
    /\ product_titles[idx] # <<>>
    /\ \E error \in {"embedding", "search"} : exception' = error
    /\ failed_at' = idx
    /\ rpc' = "except"
    /\ UNCHANGED <<product_titles, top_k_per_product, idx, results,
                   reviews_by_product, returned>>
    /\ UNCHANGED <<extractVars, qualityVars, chatVars, matchVars, routeVars>>

\* lines 480-639
PrimaryPass ==
    /\ rpc = "filter"
    /\ LET scan == PrimaryLoop(results, 1, product_titles[idx],
                               top_k_per_product, <<>>)
       IN  IF scan.error
           THEN /\ rpc' = "except"
                /\ exception' = "metadata"
                /\ failed_at' = idx
                /\ UNCHANGED <<idx, reviews_by_product>>
           ELSE IF scan.reviews # <<>>
           THEN /\ reviews_by_product' =
                       PutReviews(reviews_by_product, product_titles[idx],
                                  TopReviews(scan.reviews, top_k_per_product))
                /\ idx' = idx + 1
                /\ rpc' = "loop"
                /\ UNCHANGED <<exception, failed_at>>
           ELSE /\ rpc' = "fallback"
                /\ UNCHANGED <<idx, reviews_by_product, exception, failed_at>>
    /\ UNCHANGED <<product_titles, top_k_per_product, results, returned>>
    /\ UNCHANGED <<extractVars, qualityVars, chatVars, matchVars, routeVars>>

\* lines 640-675
FallbackPass ==
    /\ rpc = "fallback"
    /\ LET scan == FallbackLoop(results, 1, product_titles[idx], <<>>)
       IN  IF scan.error
           THEN /\ rpc' = "except"
                /\ exception' = "metadata"
                /\ failed_at' = idx
                /\ UNCHANGED <<idx, reviews_by_product>>
           ELSE /\ reviews_by_product' =
                       IF scan.reviews # <<>>
                       THEN PutReviews(reviews_by_product, product_titles[idx],
                                       TopReviews(scan.reviews, top_k_per_product))
                       ELSE reviews_by_product
                /\ idx' = idx + 1
                /\ rpc' = "loop"
                /\ UNCHANGED <<exception, failed_at>>
    /\ UNCHANGED <<product_titles, top_k_per_product, results, returned>>
    /\ UNCHANGED <<extractVars, qualityVars, chatVars, matchVars, routeVars>>

\* line 677
ReturnMapping ==
    /\ rpc = "loop"
    /\ idx > Len(product_titles)
    /\ returned' = reviews_by_product
    /\ rpc' = "returned"
    /\ UNCHANGED <<product_titles, top_k_per_product, idx, results,
                   reviews_by_product, exception, failed_at>>
    /\ UNCHANGED <<extractVars, qualityVars, chatVars, matchVars, routeVars>>

\* lines 679-682
HandleException ==
    /\ rpc = "except"
    /\ IF Catches(exception)
       THEN returned' = <<>> /\ rpc' = "returned"
       ELSE returned' = returned /\ rpc' = "raised"
    /\ UNCHANGED <<product_titles, top_k_per_product, idx, results,
                   reviews_by_product, exception, failed_at>>
    /\ UNCHANGED <<extractVars, qualityVars, chatVars, matchVars, routeVars>>

NextReviews ==
    \/ FetchStart
    \/ SkipTitle
    \/ QueryProduct
    \/ QueryRaises
    \/ PrimaryPass
    \/ FallbackPass
    \/ ReturnMapping
    \/ HandleException

-----------------------------------------------------------------------------
(* is_quality_review and calculate_quality_score applied to one review.     *)

MaxContentLen == 160

BaseContents ==
    {ContentTransformed, ContentGreat, ContentSoftCurly, ContentClean,
     ContentStuff, ContentCant, ContentLong, ContentAmp}

\* the first characters of the base contents
Contents == {Take(c, n) : c \in BaseContents, n \in 0..MaxContentLen}

\* star ratings
ReviewScores == 1..5

InitQuality ==
    /\ q_content \in Contents
    /\ q_score \in ReviewScores
    /\ q_accepted = FALSE
    /\ q_quality = 0
    /\ qpc = "start"

\* line 567
JudgeReview ==
    /\ qpc = "start"
    /\ q_accepted' = is_quality_review(q_content)
    /\ qpc' = "judged"
    /\ UNCHANGED <<q_content, q_score, q_quality>>
    /\ UNCHANGED <<extractVars, reviewVars, chatVars, matchVars, routeVars>>

\* line 614
ScoreReview ==
    /\ qpc = "judged"
    /\ q_quality' = calculate_quality_score(q_content, q_score)
    /\ qpc' = "scored"
    /\ UNCHANGED <<q_content, q_score, q_accepted>>
    /\ UNCHANGED <<extractVars, reviewVars, chatVars, matchVars, routeVars>>

NextQuality ==
    \/ JudgeReview
    \/ ScoreReview

-----------------------------------------------------------------------------
(* The recommendation branch of /chat: extraction, review fetch, merge.      *)

MaxSnippet == 220

\* the texts the model generates in the chat runs
ChatTexts == {Concat(a) : a \in {<<>>, <<1>>, <<1, 2>>, <<1, 3>>, <<7>>}}

\* line 392
InitChat ==
    /\ generated \in ChatTexts
    /\ recommendation = generated
    /\ chat_reviews = <<>>
    /\ cpc = "start"

\* line 397: extract_product_images(recommendation, products) is entered
ChatExtract ==
    /\ cpc = "start"
    /\ text' = recommendation
    /\ products' \in {Prefix(o, MaxCatalog) : o \in CatalogOrders}
    /\ pc' = "start"
    /\ cpc' = "extracting"
    /\ UNCHANGED <<text_lower, product_name_to_image, product_images,
                   found_products, final_products, seen_names, callVars>>
    /\ UNCHANGED <<generated, recommendation, chat_reviews>>
    /\ UNCHANGED <<reviewVars, qualityVars, matchVars, routeVars>>

\* ChatFetch with the names in the reverse order
ChatFetchReversed ==
    /\ cpc = "extracting"
    /\ pc = "done"
    /\ product_titles' =
           [i \in 1..Len(final_products) |->
               final_products[Len(final_products) + 1 - i]]
    /\ top_k_per_product' = 2
    /\ rpc' = "start"
    /\ idx' = 1
    /\ results' = <<>>
    /\ reviews_by_product' = <<>>
    /\ returned' = <<>>
    /\ exception' = "none"
    /\ failed_at' = 0
    /\ cpc' = "fetching"
    /\ UNCHANGED <<generated, recommendation, chat_reviews>>
    /\ UNCHANGED <<extractVars, qualityVars, matchVars, routeVars>>

\* lines 407-410: fetch_positive_reviews_for_products is entered with the
\* non-empty names of the extracted products and top_k_per_product=2
ChatFetch ==
    /\ cpc = "extracting"
    /\ pc = "done"
    /\ product_titles' = SelectSeq(final_products, LAMBDA name : name # <<>>)
    /\ top_k_per_product' = 2
    /\ rpc' = "start"
    /\ idx' = 1
    /\ results' = <<>>
    /\ reviews_by_product' = <<>>
    /\ returned' = <<>>
    /\ exception' = "none"
    /\ failed_at' = 0
    /\ cpc' = "fetching"
    /\ UNCHANGED <<generated, recommendation, chat_reviews>>
    /\ UNCHANGED <<extractVars, qualityVars, matchVars, routeVars>>

\* lines 410 and 413-416: the mapping returned, or {} when the call raised
ChatFetched ==
    /\ cpc = "fetching"
    /\ rpc \in {"returned", "raised"}
    /\ chat_reviews' = IF rpc = "returned" THEN returned ELSE <<>>
    /\ cpc' = "merge"
    /\ UNCHANGED <<generated, recommendation>>
    /\ UNCHANGED <<extractVars, reviewVars, qualityVars, matchVars, routeVars>>

\* lines 424-429: the snippet as it is shown
ShortSnippet(r) ==
    LET stripped == Strip(Get(r, "review_content", <<>>))
        snippet == [i \in 1..Len(stripped) |->
                       IF stripped[i] = "\n" THEN " " ELSE stripped[i]]
        cut == Take(snippet, MaxSnippet - 3)
        keep == {i \in 1..Len(cut) : cut[i] \notin Whitespace}
        \* cut.rstrip()
        rstripped == IF keep = {} THEN <<>>
                     ELSE SubSeq(cut, 1, CHOOSE i \in keep : \A j \in keep : i >= j)
    IN  IF Len(snippet) > MaxSnippet
        THEN rstripped \o <<".", ".", ".">>
        ELSE snippet

RECURSIVE SnippetParts(_)
\* lines 423-430: one part per review with a non-empty snippet
SnippetParts(reviews) ==
    IF reviews = <<>> THEN <<>>
    ELSE (IF ShortSnippet(Head(reviews)) = <<>> THEN <<>>
          ELSE << <<" "," ","-"," ","\"">> \o ShortSnippet(Head(reviews)) \o <<"\"">> >>)
         \o SnippetParts(Tail(reviews))

RECURSIVE SectionParts(_)
\* lines 421-430: for each product its heading and its snippets
SectionParts(d) ==
    IF d = <<>> THEN <<>>
    ELSE << <<"\n","-"," ","*","*">> \o Head(d).title \o <<"*","*",":">> >>
         \o SnippetParts(Head(d).reviews)
         \o SectionParts(Tail(d))

RECURSIVE JoinLines(_)
\* "\n".join(parts)
JoinLines(parts) ==
    IF parts = <<>> THEN <<>>
    ELSE IF Len(parts) = 1 THEN Head(parts)
    ELSE Head(parts) \o <<"\n">> \o JoinLines(Tail(parts))

\* line 420
ReviewsHeader ==
    <<"\n","\n","W","h","a","t"," ","c","u","s","t","o","m","e","r","s"," ","a","r","e"," ","s","a","y","i","n","g",":">>

\* MergeReviews without the test of line 419
MergeReviewsAlways(rec, d) ==
    rec \o <<"\n">> \o JoinLines(<<ReviewsHeader>> \o SectionParts(d))

\* lines 419-431
MergeReviews(rec, d) ==
    IF d # <<>>
    THEN rec \o <<"\n">> \o JoinLines(<<ReviewsHeader>> \o SectionParts(d))
    ELSE rec

\* lines 419-438
ChatRespond ==
    /\ cpc = "merge"
    /\ recommendation' = MergeReviews(recommendation, chat_reviews)
    /\ cpc' = "responded"
    /\ UNCHANGED <<generated, chat_reviews>>
    /\ UNCHANGED <<extractVars, reviewVars, qualityVars, matchVars, routeVars>>

\* SkipTitle is left out: line 408 passes no empty title
NextChat ==
    \/ ChatExtract
    \/ NextExtract
    \/ ChatFetch
    \/ FetchStart
    \/ QueryProduct
    \/ QueryRaises
    \/ PrimaryPass
    \/ FallbackPass
    \/ ReturnMapping
    \/ HandleException
    \/ ChatFetched
    \/ ChatRespond

-----------------------------------------------------------------------------
(* The product-identity test of lines 485-496 applied to one title.         *)

\* product titles the review matcher is asked about
MatchProducts == {NewWashOriginal, HairBalm, TitleNewWash, NewWashRich, PreWash}

\* metadata['product_title'] values: the names themselves, other products,
\* a missing title, and titles that differ from a name by punctuation or
\* word order
MatchTitles ==
    {NewWashOriginal, HairBalm, TitleNewWash, TitleDispenser, TitleHairBalmDot,
     PreWash, <<>>,
     <<"N","e","w"," ","W","a","s","h"," ","(","O","r","i","g","i","n","a","l",")">>,    \* New Wash (Original),
     <<"O","r","i","g","i","n","a","l"," ","N","e","w"," ","W","a","s","h">>,    \* Original New Wash,
     <<"N","e","w"," ","W","a","s","h",":"," ","O","r","i","g","i","n","a","l">>,    \* New Wash: Original,
     <<"N","e","w"," ","W","a","s","h"," ","-"," ","O","r","i","g","i","n","a","l">>,    \* New Wash - Original,
     <<"\"","H","a","i","r"," ","B","a","l","m","\"">>,    \* "Hair Balm",
     <<"H","a","i","r",","," ","B","a","l","m">>}    \* Hair, Balm

InitMatch ==
    /\ m_product \in MatchProducts
    /\ m_title \in MatchTitles
    /\ m_matches = FALSE
    /\ mpc = "start"

\* lines 485 and 490-496
MatchTitle ==
    /\ mpc = "start"
    /\ m_matches' = TitleMatches(m_product, Lower(m_title))
    /\ mpc' = "done"
    /\ UNCHANGED <<m_product, m_title>>
    /\ UNCHANGED <<extractVars, reviewVars, qualityVars, chatVars, routeVars>>

NextMatch == MatchTitle

-----------------------------------------------------------------------------
(* The routing of /chat, src/app.py lines 316-446, and the choice of prompt  *)
(* in generate_conversational_response, src/scripts/hybrid_chatbot.py lines *)
(* 238-338.  The profile is passed through and is left out.                 *)

MaxMessages == 21
QuestionLimit == 10
MessageLimit == 20
SufficientHistory == 3

\* app.py line 348
RouteKeywords ==
    <<<<"r","e","c","o","m","m","e","n","d">>,
      <<"s","u","g","g","e","s","t">>,
      <<"h","e","l","p">>,
      <<"r","o","u","t","i","n","e">>,
      <<"p","r","o","d","u","c","t","s">>,
      <<"w","h","a","t"," ","s","h","o","u","l","d">>,
      <<"n","e","e","d">>,
      <<"g","i","v","e"," ","m","e">>>>

\* hybrid_chatbot.py line 256
SufficientInfoKeywords ==
    <<<<"r","e","c","o","m","m","e","n","d">>,
      <<"s","u","g","g","e","s","t">>,
      <<"h","e","l","p">>,
      <<"r","o","u","t","i","n","e">>,
      <<"p","r","o","d","u","c","t","s">>,
      <<"w","h","a","t"," ","s","h","o","u","l","d">>,
      <<"n","e","e","d">>>>

AssistantQuestion == <<"W","h","a","t"," ","i","s"," ","y","o","u","r"," ","h","a","i","r"," ","t","y","p","e","?">>

\* a question followed by a blank
AssistantSpaced == <<"A","n","y","t","h","i","n","g"," ","e","l","s","e","?"," ">>

AssistantStatement == <<"G","o","t"," ","i","t",".">>

\* a user message that ends with a question mark
UserPlain == <<"I","s"," ","i","t"," ","c","u","r","l","y","?">>

\* user messages that hold one of the keywords, in upper and lower case
KeywordMessages ==
    {<<"I"," ","N","E","E","D"," ","s","o","m","e","t","h","i","n","g">>,
     <<"G","i","v","e"," ","m","e"," ","i","d","e","a","s">>,
     <<"W","h","a","t"," ","S","h","o","u","l","d"," ","I"," ","d","o">>,
     <<"a","n","y"," ","s","u","g","g","e","s","t","i","o","n","s">>,
     <<"T","h","a","n","k","s">>}

Msg(role, content) == [role |-> role, content |-> content]

\* the message at position i of a conversation of the given style
Script(style, i) ==
    CASE style = "questions" ->
             IF i % 2 = 1 THEN Msg("assistant", AssistantQuestion)
             ELSE Msg("user", UserPlain)
      [] style = "spaced" ->
             IF i = 1 THEN Msg("assistant", AssistantSpaced)
             ELSE IF i % 2 = 1 THEN Msg("assistant", AssistantQuestion)
             ELSE Msg("user", UserPlain)
      [] style = "statements" ->
             IF i % 2 = 1 THEN Msg("user", UserPlain)
             ELSE Msg("assistant", AssistantStatement)
      [] style = "late" ->
             IF i % 2 = 1 THEN Msg("user", UserPlain)
             ELSE Msg("assistant", AssistantQuestion)

Styles == {"questions", "spaced", "statements", "late"}

\* what a conversation ends with: nothing more, a user message, or a user
\* message and the assistant's answer to it
Tails ==
    {<<>>}
        \cup {<<Msg("user", m)>> : m \in KeywordMessages}
        \cup {<<Msg("user", m), Msg("assistant", AssistantStatement)>> :
                  m \in KeywordMessages}

\* the values of data["conversation_history"]
RouteHistories ==
    {[i \in 1..n |-> Script(style, i)] \o tail :
        style \in Styles, n \in 0..MaxMessages, tail \in Tails}

\* s.endswith(suffix)
EndsWith(s, suffix) ==
    /\ Len(suffix) <= Len(s)
    /\ SubSeq(s, Len(s) - Len(suffix) + 1, Len(s)) = suffix

\* the count of lines 339-342 without the strip()
CountQuestionsUnstripped(history) ==
    Cardinality({i \in 1..Len(history) :
                    /\ history[i].role = "assistant"
                    /\ EndsWith(history[i].content, <<"?">>)})

\* app.py lines 339-342
CountQuestions(history) ==
    Cardinality({i \in 1..Len(history) :
                    /\ history[i].role = "assistant"
                    /\ EndsWith(Strip(history[i].content), <<"?">>)})

\* app.py line 345
LastMessage(history) ==
    IF history # <<>> THEN history[Len(history)].content ELSE <<>>

\* is_asking_for_recommendations without the keyword 'need'
is_asking_without_need(last_user_message) ==
    AnyPresent(SelectSeq(RouteKeywords, LAMBDA k : k # <<"n","e","e","d">>),
               Lower(last_user_message))

\* app.py lines 346-349
is_asking_for_recommendations(last_user_message) ==
    AnyPresent(RouteKeywords, Lower(last_user_message))

\* app.py lines 352-356
should_give_recommendations(history, questions) ==
    \/ is_asking_for_recommendations(LastMessage(history))
    \/ questions >= QuestionLimit
    \/ Len(history) >= MessageLimit

\* hybrid_chatbot.py lines 254-257
has_sufficient_info(user_input, history) ==
    /\ Len(history) >= SufficientHistory
    /\ AnyPresent(SufficientInfoKeywords, Lower(user_input))

\* hybrid_chatbot.py lines 272-326: the prompt that is built
ChoosePrompt(user_input, history, questions) ==
    LET questions_remaining == QuestionLimit - questions
    IN  IF has_sufficient_info(user_input, history) THEN "suggestion"
        ELSE IF questions_remaining <= 0 THEN "offer"
        ELSE "follow_up"

\* app.py lines 318-319
InitRoute ==
    /\ conversation_history \in RouteHistories
    /\ assistant_questions = 0
    /\ branch = "none"
    /\ prompt = "none"
    /\ response_keys = {}
    /\ route_pc = "start"

\* app.py lines 338-358
DecideBranch ==
    /\ route_pc = "start"
    /\ assistant_questions' = CountQuestions(conversation_history)
    /\ branch' = IF should_give_recommendations(conversation_history,
                                                CountQuestions(conversation_history))
                 THEN "recommendation" ELSE "conversation"
    /\ route_pc' = "decided"
    /\ UNCHANGED <<conversation_history, prompt, response_keys>>
    /\ UNCHANGED <<extractVars, reviewVars, qualityVars, chatVars, matchVars>>

\* app.py lines 359-438: the recommendation is generated, extended and sent
RecommendationResponse ==
    /\ route_pc = "decided"
    /\ branch = "recommendation"
    /\ response_keys' = {"profile", "recommendation", "product_images"}
    /\ route_pc' = "responded"
    /\ UNCHANGED <<conversation_history, assistant_questions, branch, prompt>>
    /\ UNCHANGED <<extractVars, reviewVars, qualityVars, chatVars, matchVars>>

\* app.py lines 381-390: the completion call raises; nothing catches it and
\* the request ends without a response body of the route
RecommendationRaises ==
    /\ route_pc = "decided"
    /\ branch = "recommendation"
    /\ route_pc' = "error"
    /\ UNCHANGED <<conversation_history, assistant_questions, branch, prompt,
                   response_keys>>
    /\ UNCHANGED <<extractVars, reviewVars, qualityVars, chatVars, matchVars>>

\* app.py lines 439-446 and hybrid_chatbot.py lines 253-338: the function
\* returns a text whether or not its completion call raises
ConversationalResponse ==
    /\ route_pc = "decided"
    /\ branch = "conversation"
    /\ prompt' = ChoosePrompt(LastMessage(conversation_history),
                              conversation_history, assistant_questions)
    /\ response_keys' = {"profile", "message"}
    /\ route_pc' = "responded"
    /\ UNCHANGED <<conversation_history, assistant_questions, branch>>
    /\ UNCHANGED <<extractVars, reviewVars, qualityVars, chatVars, matchVars>>

\* the client's next request: the history of the last one with one or two
\* messages more
NextRequest ==
    /\ route_pc \in {"responded", "error"}
    /\ \E history \in RouteHistories :
          /\ Len(history) > Len(conversation_history)
          /\ Len(history) <= Len(conversation_history) + 2
          /\ SubSeq(history, 1, Len(conversation_history)) = conversation_history
          /\ conversation_history' = history
    /\ assistant_questions' = 0
    /\ branch' = "none"
    /\ prompt' = "none"
    /\ response_keys' = {}
    /\ route_pc' = "start"
    /\ UNCHANGED <<extractVars, reviewVars, qualityVars, chatVars, matchVars>>

NextRoute ==
    \/ DecideBranch
    \/ RecommendationResponse
    \/ RecommendationRaises
    \/ ConversationalResponse
    \/ NextRequest

-----------------------------------------------------------------------------
(* Specifications: each function is run from its own initial states.        *)

IdleExtract ==
    /\ text = <<>>
    /\ products = <<>>
    /\ text_lower = <<>>
    /\ product_name_to_image = <<>>
    /\ product_images = <<>>
    /\ found_products = {}
    /\ final_products = <<>>
    /\ seen_names = {}
    /\ pc = "idle"
    /\ DEBUG_MODE = FALSE
    /\ calls = 0
    /\ previous = [final |-> <<>>, debug |-> FALSE]

IdleReviews ==
    /\ product_titles = <<>>
    /\ top_k_per_product = 0
    /\ idx = 1
    /\ results = <<>>
    /\ reviews_by_product = <<>>
    /\ returned = <<>>
    /\ exception = "none"
    /\ failed_at = 0
    /\ rpc = "idle"

IdleQuality ==
    /\ q_content = <<>>
    /\ q_score = 0
    /\ q_accepted = FALSE
    /\ q_quality = 0
    /\ qpc = "idle"

IdleChat ==
    /\ generated = <<>>
    /\ recommendation = <<>>
    /\ chat_reviews = <<>>
    /\ cpc = "idle"

IdleMatch ==
    /\ m_product = <<>>
    /\ m_title = <<>>
    /\ m_matches = FALSE
    /\ mpc = "idle"

IdleRoute ==
    /\ conversation_history = <<>>
    /\ assistant_questions = 0
    /\ branch = "none"
    /\ prompt = "none"
    /\ response_keys = {}
    /\ route_pc = "idle"

\* the functions that a specification does not run
IdleHelpers == IdleQuality /\ IdleMatch /\ IdleRoute

InitExtractOnly == InitExtract /\ IdleReviews /\ IdleHelpers /\ IdleChat

InitRepeatOnly == InitRepeat /\ IdleReviews /\ IdleHelpers /\ IdleChat

InitReviewsOnly == IdleExtract /\ InitReviews /\ IdleHelpers /\ IdleChat

InitQualityOnly ==
    IdleExtract /\ IdleReviews /\ InitQuality /\ IdleMatch /\ IdleRoute /\ IdleChat

InitChatOnly == IdleExtract /\ IdleReviews /\ IdleHelpers /\ InitChat

InitMatchOnly ==
    IdleExtract /\ IdleReviews /\ IdleQuality /\ InitMatch /\ IdleRoute /\ IdleChat

InitRouteOnly ==
    IdleExtract /\ IdleReviews /\ IdleQuality /\ IdleMatch /\ InitRoute /\ IdleChat

SpecExtract == InitExtractOnly /\ [][NextExtract]_vars

SpecRepeat == InitRepeatOnly /\ [][NextRepeat]_vars

SpecReviews == InitReviewsOnly /\ [][NextReviews]_vars

SpecQuality == InitQualityOnly /\ [][NextQuality]_vars

SpecChat == InitChatOnly /\ [][NextChat]_vars

SpecMatch == InitMatchOnly /\ [][NextMatch]_vars

SpecRoute == InitRouteOnly /\ [][NextRoute]_vars

Init ==
    \/ InitExtractOnly
    \/ InitRepeatOnly
    \/ InitReviewsOnly
    \/ InitQualityOnly
    \/ InitChatOnly
    \/ InitMatchOnly
    \/ InitRouteOnly

Next ==
    NextRepeat \/ NextReviews \/ NextQuality \/ NextChat \/ NextMatch \/ NextRoute

Spec == Init /\ [][Next]_vars

-----------------------------------------------------------------------------
(* Properties of extract_product_images.                                    *)

InCatalog(name) == \E i \in 1..Len(products) : products[i] = name

Returned(name) == \E i \in 1..Len(final_products) : final_products[i] = name

\* the pool products whose name occurs before the marker
AcceptedBeforeMarker ==
    {name \in found_products : Contains(Lower(name), MainSection(text_lower))}

\* C1: for every text and catalog the returned list has at most 4 products.
C1_AtMostFour ==
    pc = "done" => Len(final_products) <= MaxResults

\* C5: when at least two products are accepted from the text before the
\* marker, every returned product's name occurs before the marker.
C5_OnlyBeforeMarker ==
    (pc = "done" /\ Cardinality(AcceptedBeforeMarker) >= MinAccepted)
        => \A i \in 1..Len(final_products) :
               Contains(Lower(final_products[i]), MainSection(text_lower))

\* C5 witness: the marker is present, two products were accepted before it
\* and a pool product named only after it was left out.
C5_Witness ==
    /\ pc = "done"
    /\ Contains(Str_marker, text_lower)
    /\ Cardinality(AcceptedBeforeMarker) >= MinAccepted
    /\ \E name \in found_products :
           /\ ~Contains(Lower(name), MainSection(text_lower))
           /\ ~Returned(name)

\* the text of the section-exclusion scenario
SectionExclusionText == FragRecommend \o FragReviews

SectionExclusionCase ==
    /\ pc = "done"
    /\ text = SectionExclusionText
    /\ InCatalog(NewWashOriginal)
    /\ InCatalog(HairBalm)

C7_NoAliasCollision ==
    ( /\ pc = "done"
      /\ InCatalog(BondBoost)
      /\ InCatalog(BondBoostForNewWash)
      /\ Contains(Str_bond_boost, text_lower)
      /\ ~Contains(Str_bond_boost_for_new_wash, text_lower) )
        => ~Returned(BondBoostForNewWash)

\* the extraction tiers have run
TiersDone == pc \in {"select", "pad", "done"}

\* C19: after the tiers, every catalog product whose lower-cased name occurs
\* in the lower-cased text is in the candidate pool.
C19_EveryNamedProductInPool ==
    TiersDone =>
        \A i \in 1..Len(products) :
            Contains(Lower(products[i]), text_lower)
                => products[i] \in found_products

\* the same, except for Bond Boost in a catalog that lists it before Bond
\* Boost for New Wash
C19_ExceptOverwrittenKey ==
    TiersDone =>
        \A i \in 1..Len(products) :
            ( /\ Contains(Lower(products[i]), text_lower)
              /\ ~(/\ products[i] = BondBoost
                   /\ \E j \in (i + 1)..Len(products) :
                          products[j] = BondBoostForNewWash) )
                => products[i] \in found_products

\* the first position of name in the candidate pool, and in the result
PoolIndex(name) ==
    CHOOSE i \in 1..Len(product_images) :
        /\ product_images[i] = name
        /\ \A j \in 1..(i - 1) : product_images[j] # name

FinalIndex(name) ==
    CHOOSE i \in 1..Len(final_products) :
        /\ final_products[i] = name
        /\ \A j \in 1..(i - 1) : final_products[j] # name

ReturnedNames == {final_products[i] : i \in 1..Len(final_products)}

\* C20 as stated: the result is in the order of the candidate pool.
C20_AcceptanceOrder ==
    pc = "done" =>
        \A a, b \in ReturnedNames :
            PoolIndex(a) < PoolIndex(b) => FinalIndex(a) < FinalIndex(b)

\* C20 amended: the products selected from the main section come first, in
\* pool order, and the padded products follow them, in pool order: a product
\* added to the pool earlier comes earlier in the result, except that a padded
\* product comes after every selected one; padding happens only when fewer
\* than two products were selected.
C20_SelectedThenPadded ==
    pc = "done" =>
        \A a, b \in ReturnedNames :
            PoolIndex(a) < PoolIndex(b) =>
                IF InMainSection(b, text_lower) /\ ~InMainSection(a, text_lower)
                THEN /\ FinalIndex(b) < FinalIndex(a)
                     /\ Len(SelectionLoop(product_images, 1, text_lower,
                                          [final |-> <<>>, seen |-> {}]).final)
                            < MinAccepted
                ELSE FinalIndex(a) < FinalIndex(b)

\* C20 witness: a product selected from the main section is returned ahead
\* of a padded product that entered the pool before it
C20_Witness ==
    /\ pc = "done"
    /\ \E a, b \in ReturnedNames :
           /\ PoolIndex(a) < PoolIndex(b)
           /\ FinalIndex(b) < FinalIndex(a)
           /\ InMainSection(b, text_lower)
           /\ ~InMainSection(a, text_lower)

\* the pool products named before the marker, and the other ones, both in
\* pool order
AcceptedList ==
    SelectSeq(product_images, LAMBDA name : InMainSection(name, text_lower))

RestOfPool ==
    SelectSeq(product_images, LAMBDA name : ~InMainSection(name, text_lower))

\* C21: with fewer than 2 products accepted from the text before the marker
\* the result is the accepted list followed by the remaining pool products in
\* pool order, up to 4 entries in all; with 2 or more accepted the result is
\* the accepted list.  The pool holds no name twice.
C21_PaddingFromPool ==
    /\ \A i, j \in 1..Len(product_images) :
           product_images[i] = product_images[j] => i = j
    /\ pc = "done" =>
           final_products =
               IF Len(AcceptedList) < MinAccepted
               THEN AcceptedList
                        \o Take(RestOfPool, MaxResults - Len(AcceptedList))
               ELSE AcceptedList

\* C21 witness: fewer than 2 products were accepted before the marker, the
\* pool held more than 4 products, and the result is 4 long with a padding
\* entry named only after the marker
C21_Witness ==
    /\ pc = "done"
    /\ Len(AcceptedList) < MinAccepted
    /\ Len(product_images) > MaxResults
    /\ Len(final_products) = MaxResults
    /\ \E i \in 1..Len(final_products) :
           /\ Contains(Lower(final_products[i]), text_lower)
           /\ ~InMainSection(final_products[i], text_lower)

\* one product accepted before the marker and one padded after it
C21_WitnessOneAccepted ==
    /\ pc = "done"
    /\ Len(AcceptedList) = 1
    /\ Len(final_products) > 1

\* two products accepted before the marker, a third one in the pool left out
C21_WitnessNoPadding ==
    /\ pc = "done"
    /\ Len(AcceptedList) = MinAccepted
    /\ RestOfPool # <<>>

\* the positions (from 0) at which p occurs in s
Occurrences(p, s) == {i \in 0..(Len(s) - Len(p)) : MatchAt(p, s, i)}

\* some occurrence of a recommendation phrase starts less than 200
\* characters from some occurrence of p
SomeOccurrenceNear(p) ==
    \E j \in 1..Len(recommendation_patterns) :
        \E a \in Occurrences(recommendation_patterns[j], text_lower) :
            \E b \in Occurrences(p, text_lower) :
                Abs(a - b) < RecommendationWindow

\* the first occurrence of a recommendation phrase starts less than 200
\* characters from the first occurrence of p
FirstOccurrenceNear(p) ==
    /\ Occurrences(p, text_lower) # {}
    /\ \E j \in 1..Len(recommendation_patterns) :
           LET at == Occurrences(recommendation_patterns[j], text_lower)
           IN  /\ at # {}
               /\ \E a \in at, b \in Occurrences(p, text_lower) :
                      /\ \A x \in at : a <= x
                      /\ \A y \in Occurrences(p, text_lower) : b <= y
                      /\ Abs(a - b) < RecommendationWindow

\* the recommendation-context tier has just run
AfterRecommendationTier == pc = "exact"

\* C22 as stated: a catalog product with some occurrence of its name near
\* some occurrence of a recommendation phrase is accepted by the tier.
C22_AnyOccurrence ==
    AfterRecommendationTier =>
        \A i \in 1..Len(products) :
            SomeOccurrenceNear(Lower(products[i]))
                => products[i] \in found_products

\* C22 amended: after the tier the pool holds exactly the products stored in
\* the lookup map under a key whose first occurrence in the text starts less
\* than 200 characters from the first occurrence of a recommendation phrase.
C22_FirstOccurrences ==
    AfterRecommendationTier =>
        /\ found_products =
               {product_name_to_image[i].name :
                   i \in {k \in 1..Len(product_name_to_image) :
                             FirstOccurrenceNear(product_name_to_image[k].key)}}
        /\ {product_images[i] : i \in 1..Len(product_images)} = found_products

\* C22 witness: the tier left out a product whose name occurs twice, the
\* second time near a recommendation phrase, and accepted another product
C22_Witness ==
    /\ AfterRecommendationTier
    /\ found_products # {}
    /\ \E i \in 1..Len(product_name_to_image) :
           /\ product_name_to_image[i].key = Lower(product_name_to_image[i].name)
           /\ SomeOccurrenceNear(product_name_to_image[i].key)
           /\ ~FirstOccurrenceNear(product_name_to_image[i].key)
           /\ product_name_to_image[i].name \notin found_products

Letters == {LowerChars[i] : i \in 1..Len(LowerChars)}

\* name occurs in tl at position i, between word boundaries and not inside
\* an occurrence of a longer catalog name
StandaloneAt(name, tl, i) ==
    /\ MatchAt(Lower(name), tl, i)
    /\ i > 0 => tl[i] \notin Letters
    /\ i + Len(name) < Len(tl) => tl[i + Len(name) + 1] \notin Letters
    /\ \A k \in 1..Len(products) :
           Len(products[k]) > Len(name)
               => \A j \in 0..i :
                      ~( /\ MatchAt(Lower(products[k]), tl, j)
                         /\ i + Len(name) <= j + Len(products[k]) )

OccursStandalone(name, tl) ==
    \E i \in 0..(Len(tl) - Len(name)) : StandaloneAt(name, tl, i)

\* C8: a returned product whose name occurs in the text occurs there on its
\* own: not only inside a longer catalog name or inside another word.
C8_ExactNameBoundaries ==
    pc = "done"
        => \A i \in 1..Len(final_products) :
               Contains(Lower(final_products[i]), text_lower)
                   => OccursStandalone(final_products[i], text_lower)

\* C10: a text with "new wash original" and without "new wash rich" never
\* brings New Wash Rich into the pool or the result.
C10_NoCrossContamination ==
    ( /\ pc # "start"
      /\ Contains(Str_new_wash_original, text_lower)
      /\ ~Contains(Str_new_wash_rich, text_lower) )
        => /\ NewWashRich \notin found_products
           /\ ~Returned(NewWashRich)

\* C10 witness: New Wash Rich is in the catalog, the text names only
\* New Wash Original, which is returned
C10_Witness ==
    /\ pc = "done"
    /\ InCatalog(NewWashRich)
    /\ Contains(Str_new_wash_original, text_lower)
    /\ ~Contains(Str_new_wash_rich, text_lower)
    /\ Returned(NewWashOriginal)
    /\ Len(final_products) < MinAccepted

\* C11: every returned entry carries exactly the name of a product of the
\* catalog passed in.
C11_NamesFromCatalog ==
    pc = "done" => \A i \in 1..Len(final_products) : InCatalog(final_products[i])

\* C11 witness: Bond Boost for New Wash is returned for a text that holds
\* only its alias key 'bond boost'
C11_Witness ==
    /\ pc = "done"
    /\ Returned(BondBoostForNewWash)
    /\ ~Contains(Str_bond_boost_for_new_wash, text_lower)

\* C12: the returned list never holds the same product name twice.
C12_NoDuplicateNames ==
    pc = "done"
        => \A i, j \in 1..Len(final_products) :
               i # j => final_products[i] # final_products[j]

\* C12 witness: a product in the map under two keys that both occur in the
\* text is returned, and fallback padding added an entry after it
C12_Witness ==
    /\ pc = "done"
    /\ Contains(Str_bond_boost_for_new_wash, text_lower)
    /\ \E i \in 1..Len(product_name_to_image) :
           /\ product_name_to_image[i].key = Str_bond_boost
           /\ product_name_to_image[i].name = BondBoostForNewWash
    /\ Returned(BondBoostForNewWash)
    /\ Cardinality(AcceptedBeforeMarker) < MinAccepted
    /\ Len(final_products) >= MinAccepted

-----------------------------------------------------------------------------
(* Properties of fetch_positive_reviews_for_products.                       *)

\* the entry of title in mapping d is in mapping e too
HasEntry(e, entry) == \E j \in 1..Len(e) : e[j] = entry

\* C2: when the lookup of one product raises, the mapping returned still
\* holds the reviews of the other products, and the products after the
\* failing one were processed.
C2_FailureIsolated ==
    (rpc = "returned" /\ failed_at # 0)
        => /\ \A i \in 1..Len(reviews_by_product) :
                  HasEntry(returned, reviews_by_product[i])
           /\ idx > Len(product_titles)

\* what is left of the call: the titles still to visit, and the position
\* inside the visit of the current one
Remaining ==
    LET left == Len(product_titles) + 1 - idx
    IN  CASE rpc = "start"    -> 4 * (Len(product_titles) + 2)
          [] rpc = "loop"     -> 4 * left + 3
          [] rpc = "filter"   -> 4 * left + 2
          [] rpc = "fallback" -> 4 * left + 1
          [] rpc = "except"   -> 1
          [] OTHER            -> 0

\* C3: the function never raises to its caller, it returns the empty mapping
\* when a call inside it failed, and every step of a call brings it closer to
\* its return (so a call ends, and it ends by returning).
C3_NeverRaises ==
    /\ [](rpc # "raised")
    /\ []((rpc = "returned" /\ exception # "none") => returned = <<>>)
    /\ [](rpc \in {"filter", "fallback"} => idx \in 1..Len(product_titles))
    /\ [](Remaining >= 0)
    /\ [][Remaining' < Remaining]_vars

\* C3 witness: the embedding or the search raised after reviews had been
\* gathered, and the call returned the empty mapping
C3_Witness ==
    /\ rpc = "returned"
    /\ exception \in {"embedding", "search"}
    /\ reviews_by_product # <<>>
    /\ returned = <<>>

\* the records whose snippets the returned mapping holds under title
SourcesUnder(title) ==
    UNION {{returned[i].reviews[j].match : j \in 1..Len(returned[i].reviews)} :
              i \in {k \in 1..Len(returned) : returned[k].title = title}}

\* C9 as stated: no snippet of a "New Wash Dispenser with Pump" record is
\* returned under the key "New Wash".
C9_RejectsDispenser ==
    rpc = "returned" => RecDispenser \notin SourcesUnder(TitleNewWash)

\* C9 amended: no snippet of a "New Wash Dispenser with Pump" record is
\* returned under the key "New Wash Original", whose word "original" the
\* record's title lacks.
C9_RejectsDispenserForOriginal ==
    rpc = "returned" => RecDispenser \notin SourcesUnder(NewWashOriginal)

\* C9 witness: the last search, made for New Wash Original, answered with a
\* dispenser record and a New Wash Original record, and the call returned
\* snippets under New Wash Original
C9_Witness ==
    /\ rpc = "returned"
    /\ product_titles # <<>>
    /\ product_titles[Len(product_titles)] = NewWashOriginal
    /\ \E i, j \in 1..Len(results) :
           results[i] = RecDispenser /\ results[j] = RecOriginal
    /\ RecOriginal \in SourcesUnder(NewWashOriginal)

Punctuation == {".", ",", "(", ")", "-", ":", "\"", "'", "!", "?", ";"}

\* the words of a title, lower-cased and with its punctuation removed
NormalisedWords(s) ==
    Split(SelectSeq(Lower(s), LAMBDA c : c \notin Punctuation))

\* C23: a record title matches a product exactly when every normalised word
\* of the product's name is among the normalised words of the title.
C23_NormalisedWordSubset ==
    mpc = "done" =>
        (m_matches <=>
            \A i \in 1..Len(NormalisedWords(m_product)) :
                \E j \in 1..Len(NormalisedWords(m_title)) :
                    NormalisedWords(m_title)[j] = NormalisedWords(m_product)[i])

\* the cases of C23 on which the code agrees with it: a title in another
\* word order or with a full stop matches, a title without one of the
\* product's words does not
C23_AgreedCases ==
    mpc = "done" =>
        /\ (m_product = NewWashOriginal /\ m_title = TitleDispenser) => ~m_matches
        /\ (m_product = HairBalm /\ m_title = TitleHairBalmDot) => m_matches
        /\ (m_product = NewWashOriginal
               /\ NormalisedWords(m_title)
                      = << <<"o","r","i","g","i","n","a","l">>, <<"n","e","w">>,
                           <<"w","a","s","h">> >>)
              => m_matches

\* the product whose matches are in `results` has just been dealt with
JustProcessed ==
    /\ rpc = "loop"
    /\ idx > 1
    /\ product_titles[idx - 1] # <<>>

\* the positions in `results` of the records that pass the identity, rating
\* and content filters for title, with a quality score of at least threshold
Candidates(title, threshold) ==
    {i \in 1..Len(results) :
        /\ ~IsNone(results[i])
        /\ Eligible(title, results[i])
        /\ Snippet(results[i]).quality_score >= threshold}

\* the snippets a mapping holds under title
SnippetsUnder(d, title) ==
    UNION {{d[i].reviews[j] : j \in 1..Len(d[i].reviews)} :
              i \in {k \in 1..Len(d) : d[k].title = title}}

\* every snippet of the mapping being built and of the mapping returned
AllSnippets ==
    UNION {SnippetsUnder(d, title) :
              d \in {reviews_by_product, returned},
              title \in {product_titles[i] : i \in 1..Len(product_titles)}}

\* C14: when a candidate of a product scores at least 4.5, every snippet kept
\* for the product scores at least 4.5; in every case a kept snippet scores
\* at least 4.0.
C14_ThresholdByPass ==
    /\ \A s \in AllSnippets : s.quality_score >= FallbackThreshold
    /\ (JustProcessed
         /\ Candidates(product_titles[idx - 1], PrimaryThreshold) # {})
            => \A s \in SnippetsUnder(reviews_by_product, product_titles[idx - 1]) :
                   s.quality_score >= PrimaryThreshold

\* C14 witness: the matches of a product held a candidate scoring at least
\* 4.5 and another one scoring between 4.0 and 4.5, and snippets were kept
C14_Witness ==
    /\ JustProcessed
    /\ Candidates(product_titles[idx - 1], PrimaryThreshold) # {}
    /\ Candidates(product_titles[idx - 1], FallbackThreshold)
           # Candidates(product_titles[idx - 1], PrimaryThreshold)
    /\ SnippetsUnder(reviews_by_product, product_titles[idx - 1]) # {}

\* C15: every snippet kept or returned comes from a record that has a
\* review_score, and that score is at least 4.
C15_OnlyPositive ==
    \A s \in AllSnippets :
        /\ s.review_score >= MinReviewScore
        /\ "review_score" \in DOMAIN s.match
        /\ s.match.review_score >= MinReviewScore

\* C15 witness: the call returned a Hair Balm snippet found by the relaxed
\* pass among matches that held a record rated 3 and a record without rating
C15_Witness ==
    /\ rpc = "returned"
    /\ SnippetsUnder(returned, HairBalm) # {}
    /\ \E i, j \in 1..Len(results) :
           results[i] = RecBalmLowScore /\ results[j] = RecNoTitleNoScore

\* the entries of the mapping being built and of the mapping returned
AllEntries ==
    {reviews_by_product[i] : i \in 1..Len(reviews_by_product)}
        \cup {returned[i] : i \in 1..Len(returned)}

\* C16: every value of the mapping is a non-empty list of at most
\* top_k_per_product snippets in non-increasing order of quality score, and
\* a product without a candidate at the relaxed threshold has no key.
C16_ShortSortedNonEmpty ==
    /\ \A e \in AllEntries :
           /\ e.reviews # <<>>
           /\ Len(e.reviews) <= top_k_per_product
           /\ \A j \in 1..(Len(e.reviews) - 1) :
                  e.reviews[j].quality_score >= e.reviews[j + 1].quality_score
    /\ (JustProcessed
         /\ Candidates(product_titles[idx - 1], FallbackThreshold) = {})
            => \A e \in AllEntries : e.title # product_titles[idx - 1]

\* C16 witness: the call returned two snippets of different quality under
\* one product and no key for another product of the batch
C16_Witness ==
    /\ rpc = "returned"
    /\ exception = "none"
    /\ \E i \in 1..Len(returned) :
           /\ Len(returned[i].reviews) = 2
           /\ returned[i].reviews[1].quality_score
                  > returned[i].reviews[2].quality_score
    /\ \E k \in 1..Len(product_titles) :
           /\ product_titles[k] # <<>>
           /\ \A i \in 1..Len(returned) : returned[i].title # product_titles[k]

\* the positions of the first 2 x top_k_per_product candidates of the primary
\* pass for the product just dealt with, in the order of the search results
Scanned ==
    LET cands == Candidates(product_titles[idx - 1], PrimaryThreshold)
    IN  {i \in cands :
            Cardinality({j \in cands : j < i}) < 2 * top_k_per_product}

\* the snippets kept under the product just dealt with
KeptJustNow ==
    LET d == reviews_by_product
        at == CHOOSE i \in 1..Len(d) : d[i].title = product_titles[idx - 1]
    IN  d[at].reviews

\* C25: the primary pass scans the search results in order and stops once
\* 2 x top_k_per_product reviews are accepted; the product's snippets are the
\* top_k_per_product of highest quality among the accepted ones, highest
\* first, and no record ranked after the stopping point is among them.
C25_StopsAtTwiceTopK ==
    (JustProcessed /\ Candidates(product_titles[idx - 1], PrimaryThreshold) # {}) =>
        LET kept == KeptJustNow
            from == {p \in Scanned : \E j \in 1..Len(kept) : kept[j] = Snippet(results[p])}
        IN  /\ Len(kept) = IF Cardinality(Scanned) < top_k_per_product
                           THEN Cardinality(Scanned) ELSE top_k_per_product
            /\ Cardinality(from) = Len(kept)
            /\ \A j \in 1..(Len(kept) - 1) :
                   kept[j].quality_score >= kept[j + 1].quality_score
            /\ \A p \in Scanned \ from : \A j \in 1..Len(kept) :
                   kept[j].quality_score >= Snippet(results[p]).quality_score

\* C25 witness: with top_k_per_product = 1 the scan stopped after two accepted
\* reviews, and a later record of the search results is a candidate of
\* higher quality than the snippet kept
C25_Witness ==
    /\ JustProcessed
    /\ top_k_per_product = 1
    /\ Cardinality(Scanned) = 2
    /\ Len(KeptJustNow) = 1
    /\ \E p \in Candidates(product_titles[idx - 1], PrimaryThreshold) \ Scanned :
           /\ \A q \in Scanned : p > q
           /\ Snippet(results[p]).quality_score > KeptJustNow[1].quality_score

\* the products of the pool whose lower-cased name occurs in the text before
\* the marker, in pool order
AcceptedByName ==
    SelectSeq(product_images,
              LAMBDA name : Contains(Lower(name), MainSection(Lower(text))))

\* C29: a product returned although its name does not occur in the text was
\* added by fallback padding: fewer than 2 products were accepted by name
\* before the marker, and it stands after the accepted ones.
C29_AliasOnlyByPadding ==
    pc = "done" =>
        \A i \in 1..Len(final_products) :
            ~Contains(Lower(final_products[i]), Lower(text)) =>
                /\ Len(AcceptedByName) < MinAccepted
                /\ i > Len(AcceptedByName)

\* C29 witness: Hair Balm, in the text only as "balm", is returned after the
\* one product accepted by name
C29_Witness ==
    /\ pc = "done"
    /\ Contains(<<"b","a","l","m">>, Lower(text))
    /\ ~Contains(Lower(HairBalm), Lower(text))
    /\ Len(AcceptedByName) = 1
    /\ \E i \in 2..Len(final_products) : final_products[i] = HairBalm

\* Hair Balm, in the text only as "balm", is in the pool and is not returned:
\* two products were accepted by name
C29_WitnessDropped ==
    /\ pc = "done"
    /\ ~Contains(Lower(HairBalm), Lower(text))
    /\ \E i \in 1..Len(product_images) : product_images[i] = HairBalm
    /\ Len(AcceptedByName) >= MinAccepted
    /\ \A i \in 1..Len(final_products) : final_products[i] # HairBalm

-----------------------------------------------------------------------------
(* Properties of the recommendation branch of /chat.                        *)

\* C18: the recommendation of the response starts with the generated text;
\* it is the generated text itself when the review mapping is empty or the
\* fetch failed, and it is longer only when the mapping is not empty.
C18_ReviewsOnlyAdded ==
    /\ cpc \in {"start", "extracting", "fetching", "merge"}
           => recommendation = generated
    /\ cpc = "responded" =>
           /\ Take(recommendation, Len(generated)) = generated
           /\ chat_reviews = <<>> => recommendation = generated
           /\ exception # "none" => recommendation = generated
           /\ recommendation # generated => chat_reviews # <<>>
           /\ chat_reviews # <<>> =>
                  Contains(ReviewsHeader,
                           SubSeq(recommendation, Len(generated) + 1,
                                  Len(recommendation)))

\* C18 witness: a response after a failed fetch, for a generated text that
\* names a product
C18_Witness ==
    /\ cpc = "responded"
    /\ exception # "none"
    /\ product_titles # <<>>
    /\ generated # <<>>
    /\ recommendation = generated

\* a response with a reviews section of two products
C18_WitnessSection ==
    /\ cpc = "responded"
    /\ Len(chat_reviews) = 2
    /\ recommendation # generated

\* the stages of one recommendation request, in their order
ChatStages == <<"start", "extracting", "fetching", "merge", "responded">>

\* the position of a stage
StageOf(c) == CHOOSE i \in 1..Len(ChatStages) : ChatStages[i] = c

\* C26: in a recommendation request the extractor runs on the generated text
\* while no reviews section exists, the review matcher is entered once, after
\* the extractor has returned, with exactly the names of the products it
\* returned, in their order, and the reviews section is appended last; the
\* products of the response are those the extractor returned, whatever the
\* section holds.
C26_StagesInOrder ==
    /\ [](cpc # "start" => text = generated)
    /\ [](pc \notin {"idle", "done"} =>
              cpc = "extracting" /\ recommendation = generated)
    /\ [](rpc # "idle" =>
              /\ cpc \in {"fetching", "merge", "responded"}
              /\ pc = "done"
              /\ product_titles = final_products)
    /\ [](recommendation # generated => cpc = "responded")
    /\ [][/\ cpc' # cpc => StageOf(cpc') = StageOf(cpc) + 1
          /\ (rpc # "start" /\ rpc' = "start") => (cpc = "extracting" /\ cpc' = "fetching")
          /\ pc = "done" => final_products' = final_products]_vars

\* C26 witness: a response with a reviews section, for a generated text from
\* which the extractor returned two products
C26_Witness ==
    /\ cpc = "responded"
    /\ Len(final_products) >= 2
    /\ product_titles = final_products
    /\ final_products[1] # final_products[2]
    /\ chat_reviews # <<>>
    /\ recommendation # generated

-----------------------------------------------------------------------------
(* Properties of is_quality_review.                                         *)

\* C4: is_quality_review accepts the substantive review.
C4_AcceptsSubstantive ==
    (qpc # "start" /\ q_content = ContentTransformed) => q_accepted

\* C17: is_quality_review rejects "Great!" and every content whose stripped
\* length is below 15 characters.
C17_RejectsShort ==
    /\ (qpc # "start" /\ q_content = ContentGreat) => ~q_accepted
    /\ (qpc # "start" /\ Len(Strip(q_content)) < MinContentLength) => ~q_accepted

\* C17 witness: "Great!" is among the contents judged, and a content of
\* three words, one of them meaningful, shorter than 15 characters was judged
C17_Witness ==
    /\ qpc = "judged"
    /\ ContentGreat \in Contents
    /\ 0 < Len(Strip(q_content))
    /\ Len(Strip(q_content)) < MinContentLength
    /\ Len(Split(q_content)) >= MinWords
    /\ AnyPresent(meaningful_words, Lower(q_content))
    /\ ~q_accepted

-----------------------------------------------------------------------------
(* Properties of calculate_quality_score.                                   *)

\* the keywords of a list that occur in the lower-cased content
PresentIn(keywords, content) ==
    {k \in ListSet(keywords) : Contains(k, Lower(content))}

\* C24: calculate_quality_score(content, score) is, in tenths, 10 x score,
\* plus 20 / 15 / 10 / 5 for a stripped length above 150 / 100 / 50 / 30,
\* plus 3 per benefit keyword, 4 per hair-type keyword and 2 per usage
\* keyword present (each keyword once), minus 10 for a length below 30 else
\* minus 5 for a length below 50, minus 5 when more than 2 distinct generic
\* words are present.
C24_ScoreFormula ==
    qpc = "scored" =>
        LET length == Len(Strip(q_content))
            bonus == CASE length > 150 -> 20
                       [] length > 100 /\ length <= 150 -> 15
                       [] length > 50 /\ length <= 100 -> 10
                       [] length > 30 /\ length <= 50 -> 5
                       [] length <= 30 -> 0
            penalty == CASE length < 30 -> 10
                         [] length >= 30 /\ length < 50 -> 5
                         [] length >= 50 -> 0
            generic == IF Cardinality(PresentIn(generic_words, q_content)) > 2
                       THEN 5 ELSE 0
        IN  q_quality = 10 * q_score + bonus
                        + 3 * Cardinality(PresentIn(benefit_keywords, q_content))
                        + 4 * Cardinality(PresentIn(hair_type_keywords, q_content))
                        + 2 * Cardinality(PresentIn(usage_keywords, q_content))
                        - penalty - generic

\* C24 witness: a content of exactly 150 characters was scored, with three
\* generic words, keywords of all three lists, and a keyword ("thick") that
\* is on both the benefit and the hair-type list
C24_Witness ==
    /\ qpc = "scored"
    /\ Len(Strip(q_content)) = 150
    /\ Cardinality(PresentIn(generic_words, q_content)) > 2
    /\ PresentIn(benefit_keywords, q_content)
           \cap PresentIn(hair_type_keywords, q_content) # {}
    /\ PresentIn(usage_keywords, q_content) # {}
    /\ q_quality = 10 * q_score + 15
                   + 3 * Cardinality(PresentIn(benefit_keywords, q_content))
                   + 4 * Cardinality(PresentIn(hair_type_keywords, q_content))
                   + 2 * Cardinality(PresentIn(usage_keywords, q_content))
                   - 5

-----------------------------------------------------------------------------
(* Properties of the /chat route.                                           *)

\* the route has decided between its two branches
Decided == route_pc \in {"decided", "responded", "error"}

\* the last message of the history holds one of the eight keywords, in any
\* case
KeywordInLastMessage ==
    \E k \in {<<"r","e","c","o","m","m","e","n","d">>,
            <<"s","u","g","g","e","s","t">>,
            <<"h","e","l","p">>,
            <<"r","o","u","t","i","n","e">>,
            <<"p","r","o","d","u","c","t","s">>,
            <<"w","h","a","t"," ","s","h","o","u","l","d">>,
            <<"n","e","e","d">>,
            <<"g","i","v","e"," ","m","e">>} :
        conversation_history # <<>>
            /\ Contains(k, Lower(conversation_history[Len(conversation_history)].content))

\* the assistant messages whose content ends with "?"
EndingWithQuestionMark ==
    {i \in 1..Len(conversation_history) :
        /\ conversation_history[i].role = "assistant"
        /\ conversation_history[i].content # <<>>
        /\ conversation_history[i].content[Len(conversation_history[i].content)] = "?"}

\* the assistant messages whose content, surrounding whitespace removed,
\* ends with "?"
EndingWithQuestionMarkStripped ==
    {i \in 1..Len(conversation_history) :
        /\ conversation_history[i].role = "assistant"
        /\ EndsWith(Strip(conversation_history[i].content), <<"?">>)}

\* the response of each branch
ResponseOfBranch ==
    /\ (route_pc = "responded" /\ branch = "recommendation")
           => response_keys = {"profile", "recommendation", "product_images"}
    /\ (route_pc = "responded" /\ branch = "conversation")
           => response_keys = {"profile", "message"}

C28_AlwaysFollowUp ==
    /\ (Decided /\ branch = "conversation") =>
           /\ ~has_sufficient_info(LastMessage(conversation_history),
                                    conversation_history)
           /\ QuestionLimit - assistant_questions >= 1
    /\ (route_pc = "responded" /\ branch = "conversation") => prompt = "follow_up"
    /\ prompt \in {"none", "follow_up"}

\* C28 witness: a conversational response for a history of 19 messages with
\* nine assistant questions, whose last message is a user message
C28_Witness ==
    /\ route_pc = "responded"
    /\ branch = "conversation"
    /\ Len(conversation_history) = 19
    /\ assistant_questions = 9
    /\ conversation_history[19].role = "user"
    /\ prompt = "follow_up"

-----------------------------------------------------------------------------
(* Properties of the repeated-character rule of is_quality_review.          *)

\* the number of distinct lower-cased characters of a content
DistinctLower(content) == Cardinality({LowerChar(content[i]) : i \in 1..Len(content)})

\* C30 as stated: an accepted content has distinct lower-cased characters
\* for at least 30% of its length, and a content of more than 100
\* characters with at most 30 distinct ones is not accepted.
C30_ThirtyPercentOfContent ==
    qpc # "start" =>
        /\ q_accepted => 10 * DistinctLower(q_content) >= 3 * Len(q_content)
        /\ (Len(q_content) > 100 /\ DistinctLower(q_content) <= 30) => ~q_accepted

\* C30: an accepted content, its HTML entities replaced, has distinct
\* lower-cased characters for at least 30% of its length; a content that,
\* its entities replaced, is longer than 100 characters and has at most 30
\* distinct characters is not accepted.
C30_ThirtyPercentOfCleaned ==
    qpc # "start" =>
        LET content_clean == CleanContent(q_content)
        IN  /\ q_accepted =>
                   10 * DistinctLower(content_clean) >= 3 * Len(content_clean)
            /\ (Len(content_clean) > 100 /\ DistinctLower(content_clean) <= 30)
                   => ~q_accepted

\* C30 witness: a content of more than 100 characters with at most 30
\* distinct ones, holding keywords of all three lists, was rejected and
\* then scored at least 4.5 under five stars
C30_Witness ==
    /\ qpc = "scored"
    /\ q_score = 5
    /\ Len(q_content) > 100
    /\ DistinctLower(q_content) <= 30
    /\ CleanContent(q_content) = q_content
    /\ ~q_accepted
    /\ q_quality >= PrimaryThreshold
    /\ AnyPresent(meaningful_words, Lower(q_content))

\* the review with three entities is accepted, and fewer than 30% of its
\* characters are distinct
C30_WitnessEntities ==
    /\ qpc # "start"
    /\ q_content = ContentAmp
    /\ q_accepted
    /\ 10 * DistinctLower(q_content) < 3 * Len(q_content)

\* no snippet kept or returned is, its entities replaced, mostly repeated
C30_NeverASnippet ==
    \A s \in AllSnippets :
        LET content_clean == CleanContent(s.review_content)
        IN  10 * DistinctLower(content_clean) >= 3 * Len(content_clean)

\* the substantive review, five stars, was among the matches of its product
\* and no snippet was kept for it
C30_WitnessNoSnippet ==
    /\ JustProcessed
    /\ product_titles[idx - 1] = NewWashOriginal
    /\ \E i \in 1..Len(results) : results[i] = RecOriginalLong
    /\ \A s \in AllSnippets : s.review_content # ContentTransformed

=============================================================================
